---- MODULE Spec2Model ----
(***************************************************************************)
(* Market Signal Convergence Engine: the convergence scorers and signal    *)
(* producers, the TTL cache (ie/cache.py) and the historical state stores  *)
(* (strategy_monitor/storage.py, tools/ie_fetch_open_interest.py).         *)
(*                                                                         *)
(* Fractions are fixed-point integers: imbalances, z-scores, funding and   *)
(* basis percentages are in hundredths (0.4 is 40, 10.95% is 1095).        *)
(* Time is in seconds, as time.time() gives it.                            *)
(***************************************************************************)
EXTENDS Integers, Sequences, FiniteSets, TLC

VARIABLES
    metrics,      \* the metrics dictionary handed to a scorer
    scorer,       \* which scorer produced `signal` ("none" before any ran)
    signal,       \* the scorer's result
    actIn,        \* (score, bullish, bearish) handed to _determine_action
    actOut,       \* the action each _determine_action returned for actIn
    cache,        \* IECache._cache: key -> (data, timestamp)
    now,          \* time.time(), in seconds
    hits,         \* IECache._hits
    misses,       \* IECache._misses
    sets,         \* IECache._sets
    ret,          \* the last cache call of the sequential caller and its result
    written,      \* per key: the last set() not followed by invalidate()/clear()
    evicted,      \* per key: the entry of the last set() was removed as expired
    lock,         \* IECache._lock: the thread holding it, or "free"
    pc,           \* per thread: where it is in its cache call
    op,           \* per thread: the cache call it is making
    tret,         \* per thread: what its last finished call returned
    setLog,       \* the (key, data) of every entry a set() stored
    wall,         \* time.time() / datetime.now() of the history stores
    oi_history,   \* MultiTimeframeStorage.oi_history: coin -> deque of snapshots
    funding_history, \* MultiTimeframeStorage.funding_history
    oi_file,      \* the content of OI_HISTORY_FILE: coin -> list of entries
    hret,         \* the history call made at this clock reading, and its result
    appends,      \* how many snapshots have been appended so far
    wpc,          \* per writer: where it is in _update_oi_history
    wlocal,       \* per writer: the history it loaded, with its entry added
    wlog,         \* the entries the writers have saved, in order
    outcomes,     \* per metric: how its computation or its fetch ended
    evals,        \* the results of the successive evaluations of one snapshot
    call,         \* the arguments of the function under evaluation
    result        \* what the function returned for `call`

scoreVars == <<metrics, scorer, signal>>

actVars == <<actIn, actOut>>

cacheVars == <<cache, now, hits, misses, sets, ret, written, evicted>>

threadVars == <<lock, pc, op, tret, setLog>>

histVars == <<wall, oi_history, funding_history, oi_file, hret, appends>>

writerVars == <<wpc, wlocal, wlog>>

extraVars == <<outcomes, evals, call, result>>

vars == <<metrics, scorer, signal, actIn, actOut, cache, now, hits, misses, sets,
          ret, written, evicted, lock, pc, op, tret, setLog, wall, oi_history,
          funding_history, oi_file, hret, appends, wpc, wlocal, wlog,
          outcomes, evals, call, result>>

\* What the actions of each specification leave unchanged.
notScore == <<actVars, cacheVars, threadVars, histVars, writerVars, extraVars>>

notAct == <<scoreVars, cacheVars, threadVars, histVars, writerVars, extraVars>>

notCache == <<scoreVars, actVars, threadVars, histVars, writerVars, extraVars>>

notThreads == <<scoreVars, actVars, ret, written, evicted, histVars, writerVars, extraVars>>

notHist == <<scoreVars, actVars, cacheVars, threadVars, extraVars>>

notPipeline == <<actVars, cacheVars, threadVars, histVars, writerVars, evals, call, result>>

notEvals ==
    <<scorer, signal, actVars, now, ret, written, evicted, threadVars, oi_history,
      funding_history, hret, appends, writerVars, outcomes, call, result>>

notCall == <<scoreVars, actVars, cacheVars, threadVars, histVars, writerVars, outcomes, evals>>

Abs(x) == IF x < 0 THEN -x ELSE x

Min2(a, b) == IF a < b THEN a ELSE b

Max2(a, b) == IF a > b THEN a ELSE b

(***************************************************************************)
(* Metric inputs.  A metric is a record [present, v]: an absent key reads  *)
(* as its .get() default.                                                  *)
(***************************************************************************)
Absent == [present |-> FALSE, v |-> 0]

Val(x) == [present |-> TRUE, v |-> x]

ObVals == {-65, -45, 40, 48, 65}

FlowVals == {-55, -35, 35, 45, 55}

VwapZVals == {-220, -160, 160, 220}

FundingVals == {-1200, 800, 1000, 1095, 1450}

BasisVals == {-40, -15, 25, 35}

OiTypes == {"strong_bullish", "strong_bearish", "weak_bullish", "weak_bearish", "neutral", "unknown"}

Inputs(S) == {Absent} \cup {Val(x) : x \in S}

MetricSets ==
    [ob_imbalance : Inputs(ObVals),
     flow_imbalance : Inputs(FlowVals),
     vwap_z_score : Inputs(VwapZVals),
     funding_annualized : Inputs(FundingVals),
     oi_divergence_type : OiTypes \cup {"absent"},
     basis_pct : Inputs(BasisVals)]

\* metrics.get(key, 0)
Get(m) == IF m.present THEN m.v ELSE 0

\* metrics.get('oi_divergence_type', default)
GetOi(t, default) == IF t = "absent" THEN default ELSE t

(***************************************************************************)
(* The values of the variables a specification does not use.               *)
(***************************************************************************)
NoSignal ==
    [convergence_score |-> 0, bullish_signals |-> 0, bearish_signals |-> 0,
     action |-> "none", confidence |-> "none"]

ScoreIdle ==
    /\ metrics = [ob_imbalance |-> Absent, flow_imbalance |-> Absent,
                  vwap_z_score |-> Absent, funding_annualized |-> Absent,
                  oi_divergence_type |-> "absent", basis_pct |-> Absent]
    /\ scorer = "none"
    /\ signal = NoSignal

NoAct == [sg |-> "none", cs |-> "none"]

ActIdle == actIn = [score |-> 0, bullish |-> 0, bearish |-> 0] /\ actOut = NoAct

(***************************************************************************)
(* Configuration: strategy_monitor/config.py and the defaults of           *)
(* emerald/common/config.py.                                               *)
(***************************************************************************)
THRESHOLDS ==
    [order_book_imbalance |-> 40,
     order_book_imbalance_extreme |-> 60,
     trade_flow_moderate |-> 30,
     trade_flow_strong |-> 50,
     vwap_z_score_stretched |-> 150,
     vwap_z_score_extreme |-> 200,
     funding_elevated |-> 700,
     funding_extreme |-> 1000,
     basis_threshold |-> 30]

SCORING ==
    [order_book_extreme |-> 25,
     order_book_strong |-> 15,
     trade_flow_strong |-> 25,
     trade_flow_moderate |-> 15,
     vwap_extreme |-> 30,
     vwap_stretched |-> 20,
     funding_extreme |-> 20,
     funding_elevated |-> 10,
     oi_strong |-> 20,
     oi_weak |-> 10,
     funding_basis_aligned |-> 15,
     funding_basis_diverged |-> -20]

MIN_CONVERGENCE_SCORE == 70

MIN_ALIGNED_SIGNALS == 3

MetricThresholds ==
    [order_book_imbalance |-> 40,
     order_book_imbalance_extreme |-> 60,
     trade_flow_moderate |-> 30,
     trade_flow_strong |-> 50,
     vwap_z_score_stretched |-> 150,
     vwap_z_score_extreme |-> 200,
     funding_elevated |-> 700,
     funding_extreme |-> 1000,
     basis_threshold |-> 30]

ScoringWeights ==
    [order_book_extreme |-> 25,
     order_book_strong |-> 15,
     trade_flow_strong |-> 25,
     trade_flow_moderate |-> 15,
     vwap_extreme |-> 30,
     vwap_stretched |-> 20,
     funding_extreme |-> 20,
     funding_elevated |-> 10,
     oi_strong |-> 20,
     oi_weak |-> 10,
     funding_basis_aligned |-> 15,
     funding_basis_diverged |-> -20]

SignalConfig == [min_convergence_score |-> 70, min_aligned_signals |-> 3]

(***************************************************************************)
(* The convergence score of SignalGenerator.calculate_convergence_score    *)
(* and ConvergenceStrategy._calculate_score: the same statements over      *)
(* thresholds T and point values S.                                        *)
(***************************************************************************)
\* if x > extreme: points = pExtreme  elif x > moderate: points = pModerate
TierPoints(x, extreme, moderate, pExtreme, pModerate) ==
    IF x > extreme THEN pExtreme
    ELSE IF x > moderate THEN pModerate
    ELSE 0

OiPoints(m, S) ==
    LET oi_type == GetOi(m.oi_divergence_type, "unknown")
    IN  IF oi_type \in {"strong_bullish", "strong_bearish"} THEN S.oi_strong
        ELSE IF oi_type \in {"weak_bullish", "weak_bearish"} THEN S.oi_weak
        ELSE 0

FundingBasisPoints(m, T, S) ==
    LET funding_val == Get(m.funding_annualized)
        basis == Get(m.basis_pct)
        funding_extreme == Abs(funding_val) > T.funding_extreme
        basis_extreme == Abs(basis) > T.basis_threshold
        funding_positive == funding_val > T.funding_extreme
        basis_positive == basis > T.basis_threshold
    IN  IF funding_extreme /\ basis_extreme
        THEN IF funding_positive = basis_positive
             THEN S.funding_basis_aligned
             ELSE S.funding_basis_diverged
        ELSE 0

\* The sum of the point awards before the final cap.
RawScore(m, T, S) ==
    TierPoints(Abs(Get(m.ob_imbalance)), T.order_book_imbalance_extreme,
               T.order_book_imbalance, S.order_book_extreme, S.order_book_strong)
    + TierPoints(Abs(Get(m.flow_imbalance)), T.trade_flow_strong,
                 T.trade_flow_moderate, S.trade_flow_strong, S.trade_flow_moderate)
    + TierPoints(Abs(Get(m.vwap_z_score)), T.vwap_z_score_extreme,
                 T.vwap_z_score_stretched, S.vwap_extreme, S.vwap_stretched)
    + TierPoints(Abs(Get(m.funding_annualized)), T.funding_extreme,
                 T.funding_elevated, S.funding_extreme, S.funding_elevated)
    + OiPoints(m, S)
    + FundingBasisPoints(m, T, S)

\* score = min(100, max(0, score))
Cap(score) == Min2(100, Max2(0, score))

calculate_convergence_score(m) == Cap(RawScore(m, THRESHOLDS, SCORING))

ConvergenceStrategy_calculate_score(m) == Cap(RawScore(m, MetricThresholds, ScoringWeights))

(***************************************************************************)
(* Directional tally: SignalGenerator.count_directional_signals and        *)
(* ConvergenceStrategy._count_directional_signals.                         *)
(***************************************************************************)
B2N(b) == IF b THEN 1 ELSE 0

BullishCount(m, T) ==
    LET oi_type == GetOi(m.oi_divergence_type, "unknown")
    IN  B2N(Get(m.ob_imbalance) > T.order_book_imbalance)
        + B2N(Get(m.flow_imbalance) > T.trade_flow_moderate)
        + B2N(Get(m.vwap_z_score) < -T.vwap_z_score_stretched)
        + B2N(Get(m.funding_annualized) < -T.funding_extreme)
        + B2N(oi_type \in {"strong_bullish", "weak_bearish"})

BearishCount(m, T) ==
    LET oi_type == GetOi(m.oi_divergence_type, "unknown")
    IN  B2N(Get(m.ob_imbalance) < -T.order_book_imbalance)
        + B2N(Get(m.flow_imbalance) < -T.trade_flow_moderate)
        + B2N(Get(m.vwap_z_score) > T.vwap_z_score_stretched)
        + B2N(Get(m.funding_annualized) > T.funding_extreme)
        + B2N(oi_type \in {"strong_bearish", "weak_bullish"})

(***************************************************************************)
(* SignalGenerator._determine_action, ._determine_confidence               *)
(***************************************************************************)
\* A variant of _determine_action that does not require the minimum aligned
\* count of the long side.
determine_action_no_min(score, bullish_signals, bearish_signals) ==
    IF score < MIN_CONVERGENCE_SCORE THEN "SKIP"
    ELSE IF bullish_signals > bearish_signals THEN "LONG"
    ELSE IF bearish_signals >= MIN_ALIGNED_SIGNALS /\ bearish_signals > bullish_signals
         THEN "SHORT"
    ELSE "SKIP"

determine_action(score, bullish_signals, bearish_signals) ==
    IF score < MIN_CONVERGENCE_SCORE THEN "SKIP"
    ELSE IF bullish_signals >= MIN_ALIGNED_SIGNALS /\ bullish_signals > bearish_signals
         THEN "LONG"
    ELSE IF bearish_signals >= MIN_ALIGNED_SIGNALS /\ bearish_signals > bullish_signals
         THEN "SHORT"
    ELSE "SKIP"

ConvergenceStrategy_determine_action(score, bullish, bearish) ==
    IF score < SignalConfig.min_convergence_score THEN "SKIP"
    ELSE IF bullish >= SignalConfig.min_aligned_signals /\ bullish > bearish
         THEN "LONG"
    ELSE IF bearish >= SignalConfig.min_aligned_signals /\ bearish > bullish
         THEN "SHORT"
    ELSE "SKIP"

\* A variant of _determine_confidence in which one threshold suffices.
determine_confidence_either(score, aligned_signals) ==
    IF score >= 85 \/ aligned_signals >= 4 THEN "HIGH"
    ELSE IF score >= 70 \/ aligned_signals >= 3 THEN "MEDIUM"
    ELSE "LOW"

determine_confidence(score, aligned_signals) ==
    IF score >= 85 /\ aligned_signals >= 4 THEN "HIGH"
    ELSE IF score >= 70 /\ aligned_signals >= 3 THEN "MEDIUM"
    ELSE "LOW"

\* SignalGenerator.generate_signal, without the price levels.
generate_signal(m) ==
    LET score == calculate_convergence_score(m)
        bullish == BullishCount(m, THRESHOLDS)
        bearish == BearishCount(m, THRESHOLDS)
    IN  [convergence_score |-> score,
         bullish_signals |-> bullish,
         bearish_signals |-> bearish,
         action |-> determine_action(score, bullish, bearish),
         confidence |-> determine_confidence(score, Max2(bullish, bearish))]

\* ConvergenceStrategy.generate_signal, without the price levels.
ConvergenceStrategy_generate_signal(m) ==
    LET score == ConvergenceStrategy_calculate_score(m)
        bullish == BullishCount(m, MetricThresholds)
        bearish == BearishCount(m, MetricThresholds)
    IN  [convergence_score |-> score,
         bullish_signals |-> bullish,
         bearish_signals |-> bearish,
         action |-> ConvergenceStrategy_determine_action(score, bullish, bearish),
         confidence |-> determine_confidence(score, Max2(bullish, bearish))]

(***************************************************************************)
(* tools/ie_fetch_institutional_metrics.py: _generate_summary.  A metric   *)
(* whose fetch failed is None in the metrics dictionary (absent here).     *)
(***************************************************************************)
SummaryBullish(m) ==
    B2N(m.ob_imbalance.present /\ m.ob_imbalance.v > 40)
    + B2N(m.flow_imbalance.present /\ m.flow_imbalance.v > 40)
    + B2N(m.funding_annualized.present /\ m.funding_annualized.v < -1000)
    + B2N(m.basis_pct.present /\ m.basis_pct.v < -30)
    + B2N(m.oi_divergence_type = "strong_bullish")

SummaryBearish(m) ==
    B2N(m.ob_imbalance.present /\ m.ob_imbalance.v < -40)
    + B2N(m.flow_imbalance.present /\ m.flow_imbalance.v < -40)
    + B2N(m.funding_annualized.present /\ m.funding_annualized.v > 1000)
    + B2N(m.basis_pct.present /\ m.basis_pct.v > 30)
    + B2N(m.oi_divergence_type = "strong_bearish")

SummaryFundingBasis(m) ==
    LET funding_pct == m.funding_annualized.v
        basis_pct == m.basis_pct.v
    IN  IF ~(m.funding_annualized.present /\ m.basis_pct.present) THEN 0
        ELSE IF funding_pct > 1000 /\ basis_pct > 20 THEN 35
        ELSE IF funding_pct < -1000 /\ basis_pct < -20 THEN 35
        ELSE IF (funding_pct > 1000 /\ basis_pct < -10)
                \/ (funding_pct < -1000 /\ basis_pct > 10) THEN -20
        ELSE 0

SummaryRawScore(m) ==
    (IF m.ob_imbalance.present /\ Abs(m.ob_imbalance.v) > 40 THEN 25 ELSE 0)
    + (IF m.flow_imbalance.present /\ Abs(m.flow_imbalance.v) > 40 THEN 25 ELSE 0)
    \* funding["is_extreme"] is abs(annualized_pct) > 10 (ie/calculations.py)
    + (IF m.funding_annualized.present /\ Abs(m.funding_annualized.v) > 1000 THEN 15 ELSE 0)
    + SummaryFundingBasis(m)
    + (IF m.oi_divergence_type \in {"strong_bullish", "strong_bearish"} THEN 30 ELSE 0)

Recommendation(convergence_score, bullish_signals, bearish_signals) ==
    IF convergence_score >= 85
    THEN IF bullish_signals > bearish_signals
         THEN "very_high_conviction_long" ELSE "very_high_conviction_short"
    ELSE IF convergence_score >= 70
    THEN IF bullish_signals > bearish_signals
         THEN "high_conviction_long" ELSE "high_conviction_short"
    ELSE IF convergence_score >= 50
    THEN IF bullish_signals > bearish_signals THEN "moderate_long"
         ELSE IF bearish_signals > bullish_signals THEN "moderate_short"
         ELSE "neutral_mixed_signals"
    ELSE "no_trade_low_conviction"

generate_summary(m) ==
    LET convergence_score == Max2(0, SummaryRawScore(m))
        bullish == SummaryBullish(m)
        bearish == SummaryBearish(m)
    IN  [convergence_score |-> convergence_score,
         bullish_signals |-> bullish,
         bearish_signals |-> bearish,
         action |-> Recommendation(convergence_score, bullish, bearish),
         confidence |-> "none"]

LongRecommendations == {"very_high_conviction_long", "high_conviction_long", "moderate_long"}

ShortRecommendations == {"very_high_conviction_short", "high_conviction_short", "moderate_short"}

(***************************************************************************)
(* ie/cache.py: IECache.  The cache maps a key to (data, timestamp); the   *)
(* TTL is an argument of get() and cleanup_expired().                      *)
(***************************************************************************)
Keys == {"order_book:BTC:10", "oi:BTC"}

Data == {"r1", "r2"}

\* CACHE_TTL of tools/ie_fetch_order_book.py and tools/ie_fetch_open_interest.py
OrderBookTTL == 2

OpenInterestTTL == 300

TTLs == {OrderBookTTL, OpenInterestTTL}

MaxNow == 4

MaxCalls == 4

NoEntry == [present |-> FALSE, data |-> "none", timestamp |-> 0]

Entry(data, timestamp) == [present |-> TRUE, data |-> data, timestamp |-> timestamp]

NoRet == [op |-> "none", key |-> "none", ttl |-> 0, kind |-> "none", data |-> "none"]

NoWrite == [present |-> FALSE, v |-> "none", t |-> 0]

CacheEmpty ==
    /\ cache = [k \in Keys |-> NoEntry]
    /\ hits = 0
    /\ misses = 0
    /\ sets = 0
    /\ written = [k \in Keys |-> NoWrite]
    /\ evicted = [k \in Keys |-> FALSE]

CacheIdle ==
    /\ CacheEmpty
    /\ now = 0
    /\ ret = NoRet

Threads == {"t1", "t2"}

NoOp == [name |-> "none", key |-> "none", ttl |-> 0, data |-> "none"]

NoTRet == [kind |-> "none", key |-> "none", data |-> "none"]

ThreadsIdle ==
    /\ lock = "free"
    /\ pc = [t \in Threads |-> "idle"]
    /\ op = [t \in Threads |-> NoOp]
    /\ tret = [t \in Threads |-> NoTRet]
    /\ setLog = {}

\* The instrument the history stores are exercised with.
Coins == {"BTC"}

\* The clock reading at which a behaviour of the history stores starts.
StartTime == 7 * 24 * 3600

\* A coin that is not a key of a history dictionary.
NoDeque == [exists |-> FALSE, q |-> <<>>]

NoHRet == [kind |-> "none"]

Writers == {"w1", "w2"}

WritersIdle ==
    /\ wpc = [w \in Writers |-> "idle"]
    /\ wlocal = [w \in Writers |-> [coin |-> "none", history |-> [c \in Coins |-> NoDeque]]]
    /\ wlog = <<>>

\* The metrics of the registry (emerald/metrics) by their dictionary keys.
MetricNames ==
    {"ob_imbalance", "flow_imbalance", "vwap_z_score", "funding_annualized",
     "oi_divergence_type", "basis_pct"}

NoCall == [fn |-> "none"]

OutcomesIdle == outcomes = [n \in MetricNames |-> [kind |-> "none"]]

EvalsIdle == evals = <<>>

CallIdle == call = NoCall /\ result = NoCall

ExtraIdle == OutcomesIdle /\ EvalsIdle /\ CallIdle

HistIdle ==
    /\ wall = StartTime
    /\ oi_history = [c \in Coins |-> NoDeque]
    /\ funding_history = [c \in Coins |-> NoDeque]
    /\ oi_file = [c \in Coins |-> NoDeque]
    /\ hret = NoHRet
    /\ appends = 0
    /\ WritersIdle

\* A variant of the expiry test with the comparison inverted.
ExpiredInverted(age, ttl) == age < ttl

\* if age > ttl
Expired(age, ttl) == age > ttl

\* A variant of get() that removes every entry expired under its TTL.
GetCacheEvictAll(c, key, ttl, time) ==
    IF c[key].present /\ Expired(time - c[key].timestamp, ttl)
    THEN [k \in DOMAIN c |->
              IF c[k].present /\ Expired(time - c[k].timestamp, ttl) THEN NoEntry ELSE c[k]]
    ELSE c

\* IECache.get: the dictionary after the call
GetCache(c, key, ttl, time) ==
    IF c[key].present /\ Expired(time - c[key].timestamp, ttl)
    THEN [c EXCEPT ![key] = NoEntry]
    ELSE c

\* IECache.get: a hit returns the stored data, anything else None
GetHit(c, key, ttl, time) ==
    c[key].present /\ ~Expired(time - c[key].timestamp, ttl)

\* IECache.cleanup_expired: the keys removed
ExpiredKeys(c, ttl, time) ==
    {k \in Keys : c[k].present /\ time - c[k].timestamp > ttl}

Budget == hits + misses + sets < MaxCalls

CacheGetCall(key, ttl) ==
    /\ Budget
    /\ cache' = GetCache(cache, key, ttl, now)
    /\ IF GetHit(cache, key, ttl, now)
       THEN /\ hits' = hits + 1
            /\ misses' = misses
            /\ ret' = [op |-> "get", key |-> key, ttl |-> ttl, kind |-> "hit",
                       data |-> cache[key].data]
       ELSE /\ misses' = misses + 1
            /\ hits' = hits
            /\ ret' = [op |-> "get", key |-> key, ttl |-> ttl, kind |-> "miss",
                       data |-> "none"]
    /\ evicted' = [evicted EXCEPT ![key] = @ \/ (cache[key].present /\ ~cache'[key].present)]
    /\ UNCHANGED <<now, sets, written, notCache>>

CacheGet == \E key \in Keys, ttl \in TTLs : CacheGetCall(key, ttl)

CacheSetCall(key, data) ==
    /\ Budget
    /\ cache' = [cache EXCEPT ![key] = Entry(data, now)]
    /\ sets' = sets + 1
    /\ ret' = [op |-> "set", key |-> key, ttl |-> 0, kind |-> "none", data |-> data]
    /\ written' = [written EXCEPT ![key] = [present |-> TRUE, v |-> data, t |-> now]]
    /\ evicted' = [evicted EXCEPT ![key] = FALSE]
    /\ UNCHANGED <<now, hits, misses, notCache>>

CacheSet == \E key \in Keys, data \in Data : CacheSetCall(key, data)

CacheInvalidate ==
    \E key \in Keys :
        /\ cache' = [cache EXCEPT ![key] = NoEntry]
        /\ ret' = [op |-> "invalidate", key |-> key, ttl |-> 0, kind |-> "none", data |-> "none"]
        /\ written' = [written EXCEPT ![key] = NoWrite]
        /\ UNCHANGED <<now, hits, misses, sets, evicted, notCache>>

\* clear() that also zeroes the statistics
CacheClearAndReset ==
    /\ cache' = [k \in Keys |-> NoEntry]
    /\ hits' = 0
    /\ misses' = 0
    /\ sets' = 0
    /\ ret' = [op |-> "clear", key |-> "none", ttl |-> 0, kind |-> "none", data |-> "none"]
    /\ written' = [k \in Keys |-> NoWrite]
    /\ UNCHANGED <<now, evicted, notCache>>

CacheClear ==
    /\ cache' = [k \in Keys |-> NoEntry]
    /\ ret' = [op |-> "clear", key |-> "none", ttl |-> 0, kind |-> "none", data |-> "none"]
    /\ written' = [k \in Keys |-> NoWrite]
    /\ UNCHANGED <<now, hits, misses, sets, evicted, notCache>>

CacheCleanupExpired ==
    \E ttl \in TTLs :
        LET expired_keys == ExpiredKeys(cache, ttl, now)
        IN  /\ cache' = [k \in Keys |-> IF k \in expired_keys THEN NoEntry ELSE cache[k]]
            /\ ret' = [op |-> "cleanup_expired", key |-> "none", ttl |-> ttl,
                       kind |-> "none", data |-> "none"]
            /\ evicted' = [k \in Keys |-> evicted[k] \/ k \in expired_keys]
            /\ UNCHANGED <<now, hits, misses, sets, written, notCache>>

CacheResetStats ==
    /\ hits' = 0
    /\ misses' = 0
    /\ sets' = 0
    /\ ret' = [op |-> "reset_stats", key |-> "none", ttl |-> 0, kind |-> "none", data |-> "none"]
    /\ UNCHANGED <<cache, now, written, evicted, notCache>>

Tick ==
    /\ now < MaxNow
    /\ now' = now + 1
    /\ UNCHANGED <<cache, hits, misses, sets, ret, written, evicted, notCache>>

InitCache ==
    /\ CacheIdle
    /\ ThreadsIdle
    /\ HistIdle
    /\ ExtraIdle
    /\ ScoreIdle
    /\ ActIdle

NextCache ==
    \/ CacheGet
    \/ CacheSet
    \/ CacheInvalidate
    \/ CacheClear
    \/ CacheCleanupExpired
    \/ CacheResetStats
    \/ Tick

SpecCache == InitCache /\ [][NextCache]_vars

(***************************************************************************)
(* IECache under concurrent callers.  Every method body runs inside        *)
(* "with self._lock"; get() is two steps inside the lock, the membership   *)
(* test and the read of the entry.  The step that ends a body leaves the   *)
(* with-block and so releases the lock, also when the body raised.         *)
(***************************************************************************)
\* The key the concurrent callers contend for.
ThreadKeys == {"oi:BTC"}

Calls ==
    [name : {"get"}, key : ThreadKeys, ttl : TTLs, data : {"none"}]
    \cup [name : {"set"}, key : ThreadKeys, ttl : {0}, data : Data]
    \cup [name : {"invalidate"}, key : ThreadKeys, ttl : {0}, data : {"none"}]
    \cup [name : {"clear"}, key : {"none"}, ttl : {0}, data : {"none"}]
    \cup [name : {"cleanup_expired"}, key : {"none"}, ttl : TTLs, data : {"none"}]

MaxThreadCalls == 2

ThreadMaxNow == 3

\* A variant in which the lock is never found taken.
LockIgnored(l) == TRUE

\* threading.Lock: acquire() succeeds only while nobody holds the lock
LockAvailable(l) == l = "free"

Call(t) ==
    \E o \in Calls :
        /\ pc[t] = "idle"
        /\ o.name \in {"get", "set"} => hits + misses + sets < MaxThreadCalls
        /\ op' = [op EXCEPT ![t] = o]
        /\ pc' = [pc EXCEPT ![t] = "lock"]
        /\ tret' = [tret EXCEPT ![t] = NoTRet]
        /\ UNCHANGED <<cache, now, hits, misses, sets, lock, setLog, notThreads>>

Acquire(t) ==
    /\ pc[t] = "lock"
    /\ LockAvailable(lock)
    /\ lock' = t
    /\ pc' = [pc EXCEPT ![t] = IF op[t].name = "get" THEN "check" ELSE "body"]
    /\ UNCHANGED <<cache, now, hits, misses, sets, op, tret, setLog, notThreads>>

\* if key not in self._cache: self._misses += 1; return None
GetCheck(t) ==
    /\ pc[t] = "check"
    /\ IF ~cache[op[t].key].present
       THEN /\ misses' = misses + 1
            /\ tret' = [tret EXCEPT ![t] = [kind |-> "miss", key |-> op[t].key,
                                            data |-> "none"]]
            /\ pc' = [pc EXCEPT ![t] = "idle"]
            /\ lock' = "free"
       ELSE /\ pc' = [pc EXCEPT ![t] = "read"]
            /\ UNCHANGED <<misses, tret, lock>>
    /\ UNCHANGED <<cache, now, hits, sets, op, setLog, notThreads>>

\* data, timestamp = self._cache[key] and the expiry test
GetRead(t) ==
    LET key == op[t].key
    IN  /\ pc[t] = "read"
        /\ pc' = [pc EXCEPT ![t] = "idle"]
        /\ lock' = "free"
        /\ IF ~cache[key].present
           THEN /\ tret' = [tret EXCEPT ![t] = [kind |-> "KeyError", key |-> key,
                                                data |-> "none"]]
                /\ UNCHANGED <<cache, hits, misses>>
           ELSE /\ cache' = GetCache(cache, key, op[t].ttl, now)
                /\ IF GetHit(cache, key, op[t].ttl, now)
                   THEN /\ hits' = hits + 1
                        /\ misses' = misses
                        /\ tret' = [tret EXCEPT ![t] =
                                      [kind |-> "hit", key |-> key, data |-> cache[key].data]]
                   ELSE /\ misses' = misses + 1
                        /\ hits' = hits
                        /\ tret' = [tret EXCEPT ![t] = [kind |-> "miss", key |-> key,
                                                        data |-> "none"]]
        /\ UNCHANGED <<now, sets, op, setLog, notThreads>>

\* The body of set(), invalidate(), clear() or cleanup_expired().
Body(t) ==
    LET o == op[t]
    IN  /\ pc[t] = "body"
        /\ pc' = [pc EXCEPT ![t] = "idle"]
        /\ lock' = "free"
        /\ tret' = [tret EXCEPT ![t] = [kind |-> "done", key |-> o.key,
                                        data |-> "none"]]
        /\ cache' =
             CASE o.name = "set" -> [cache EXCEPT ![o.key] = Entry(o.data, now)]
               [] o.name = "invalidate" -> [cache EXCEPT ![o.key] = NoEntry]
               [] o.name = "clear" -> [k \in Keys |-> NoEntry]
               [] o.name = "cleanup_expired" ->
                    [k \in Keys |-> IF k \in ExpiredKeys(cache, o.ttl, now)
                                    THEN NoEntry ELSE cache[k]]
        /\ sets' = IF o.name = "set" THEN sets + 1 ELSE sets
        /\ setLog' = IF o.name = "set"
                     THEN setLog \cup {[key |-> o.key, data |-> o.data]}
                     ELSE setLog
        /\ UNCHANGED <<now, hits, misses, op, notThreads>>

ThreadTick ==
    /\ now < ThreadMaxNow
    /\ now' = now + 1
    /\ UNCHANGED <<cache, hits, misses, sets, threadVars, notThreads>>

InitThreads ==
    /\ CacheIdle
    /\ ThreadsIdle
    /\ HistIdle
    /\ ExtraIdle
    /\ ScoreIdle
    /\ ActIdle

NextThreads ==
    \/ \E t \in Threads : Call(t)
    \/ \E t \in Threads : Acquire(t)
    \/ \E t \in Threads : GetCheck(t)
    \/ \E t \in Threads : GetRead(t)
    \/ \E t \in Threads : Body(t)
    \/ ThreadTick

SpecThreads == InitThreads /\ [][NextThreads]_vars

(***************************************************************************)
(* strategy_monitor/storage.py: MultiTimeframeStorage.  A history          *)
(* dictionary maps a coin to [exists, q]: whether the coin is a key, and   *)
(* its deque.  The storage is constructed with the retention and interval  *)
(* arguments below.                                                        *)
(***************************************************************************)
oi_retention_hours == 8

funding_retention_hours == 12

snapshot_interval_minutes == 240

\* int(oi_retention_hours * (60 / snapshot_interval_minutes))
oi_maxlen == (oi_retention_hours * 60) \div snapshot_interval_minutes

funding_maxlen == (funding_retention_hours * 60) \div snapshot_interval_minutes

\* tolerance = 900  # 15 minutes in seconds
StorageTolerance == 900

\* if time_diff < 1800:  # 30 minutes
ToolsTolerance == 1800

\* (oi, price) pairs the market reports.
Quotes == {[oi |-> 100, price |-> 100], [oi |-> 110, price |-> 103]}

\* Funding rates the market reports.
FundingRates == {10, 12}

\* Seconds after StartTime at which the clock is read.
Elapsed == {0, 15000, 15300, 16200}

FundingElapsed == {0, 4 * 3600, 8 * 3600}

\* How far in the past a caller-supplied timestamp lies
\* (timestamp_4h = time.time() - (4 * 3600)).
Offsets == {4 * 3600}

\* hours_ago of the stand-alone lookups.
LookupHours == {4}

FundingLookupHours == {4, 8, 12}

MaxAppends == 3

MaxWrites == 2

Snapshot(timestamp, quote) ==
    [timestamp |-> timestamp, oi |-> quote.oi, price |-> quote.price]

FundingSnapshot(timestamp, rate) == [timestamp |-> timestamp, funding_rate |-> rate]

\* if coin not in storage: storage[coin] = deque(maxlen=maxlen)
ensure_deque(storage, coin) ==
    IF storage[coin].exists THEN storage
    ELSE [storage EXCEPT ![coin] = [exists |-> TRUE, q |-> <<>>]]

\* deque.append on a deque with maxlen: a full deque drops its oldest item.
deque_append(q, x, maxlen) ==
    IF Len(q) < maxlen THEN Append(q, x)
    ELSE IF maxlen = 0 THEN q
    ELSE Append(Tail(q), x)

add_oi_snapshot(storage, coin, quote, timestamp) ==
    LET s == ensure_deque(storage, coin)
    IN  [s EXCEPT ![coin].q = deque_append(@, Snapshot(timestamp, quote), oi_maxlen)]

add_funding_snapshot(storage, coin, rate, timestamp) ==
    LET s == ensure_deque(storage, coin)
    IN  [s EXCEPT ![coin].q =
             deque_append(@, FundingSnapshot(timestamp, rate), funding_maxlen)]

\* A variant of the tolerance test that admits the boundary.
WithinToleranceInclusive(diff, tolerance) == diff <= tolerance

\* diff < tolerance
WithinTolerance(diff, tolerance) == diff < tolerance

NoClosest == [found |-> FALSE, timestamp |-> 0, min_diff |-> 0, index |-> 0]

\* for snapshot in snapshots: if diff < tolerance and diff < min_diff: ...
\* (min_diff starts at infinity: nothing found yet).
RECURSIVE closest_scan(_, _, _, _, _)
closest_scan(snapshots, i, target_ts, tolerance, acc) ==
    IF i > Len(snapshots) THEN acc
    ELSE LET diff == Abs(snapshots[i].timestamp - target_ts)
         IN  closest_scan(snapshots, i + 1, target_ts, tolerance,
                 IF WithinTolerance(diff, tolerance) /\ (~acc.found \/ diff < acc.min_diff)
                 THEN [found |-> TRUE, timestamp |-> snapshots[i].timestamp,
                       min_diff |-> diff, index |-> i]
                 ELSE acc)

NotFound == [found |-> FALSE, timestamp |-> 0, oi |-> 0, price |-> 0]

Found(snapshot) ==
    [found |-> TRUE, timestamp |-> snapshot.timestamp, oi |-> snapshot.oi,
     price |-> snapshot.price]

\* MultiTimeframeStorage.get_oi_at_time, called when the clock reads t.
get_oi_at_time(storage, coin, hours_ago, t) ==
    IF ~storage[coin].exists THEN NotFound
    ELSE LET closest == closest_scan(storage[coin].q, 1, t - hours_ago * 3600,
                                     StorageTolerance, NoClosest)
         IN  IF closest.found THEN Found(storage[coin].q[closest.index]) ELSE NotFound

\* MultiTimeframeStorage.get_funding_at_time: the rate, or None (Absent).
get_funding_at_time(storage, coin, hours_ago, t) ==
    IF ~storage[coin].exists THEN Absent
    ELSE LET closest == closest_scan(storage[coin].q, 1, t - hours_ago * 3600,
                                     StorageTolerance, NoClosest)
         IN  IF closest.found THEN Val(storage[coin].q[closest.index].funding_rate)
             ELSE Absent

\* The dictionary get_funding_dynamics returns; `none` when it returns None.
\* A key the dictionary does not hold is Absent.
NoDynamics ==
    [none |-> TRUE, current |-> Absent, funding_4h_ago |-> Absent,
     velocity_4h |-> Absent, funding_8h_ago |-> Absent, velocity_8h |-> Absent,
     funding_12h_ago |-> Absent, acceleration |-> Absent]

\* the acceleration as the difference of the 4h and the 8h velocity
get_funding_dynamics_velocity_difference(storage, coin, t) ==
    IF ~storage[coin].exists \/ Len(storage[coin].q) = 0 THEN NoDynamics
    ELSE LET q == storage[coin].q
             current_funding == q[Len(q)].funding_rate
             funding_4h == get_funding_at_time(storage, coin, 4, t)
             funding_8h == get_funding_at_time(storage, coin, 8, t)
             funding_12h == get_funding_at_time(storage, coin, 12, t)
             velocity_4h == current_funding - funding_4h.v
             velocity_older == funding_4h.v - funding_8h.v
         IN  IF ~funding_4h.present THEN NoDynamics
             ELSE [none |-> FALSE,
                   current |-> Val(current_funding),
                   funding_4h_ago |-> funding_4h,
                   velocity_4h |-> Val(velocity_4h),
                   funding_8h_ago |-> funding_8h,
                   velocity_8h |-> IF funding_8h.present
                                   THEN Val(current_funding - funding_8h.v)
                                   ELSE Absent,
                   funding_12h_ago |-> funding_12h,
                   acceleration |-> IF funding_8h.present
                                    THEN Val(velocity_4h - (current_funding - funding_8h.v))
                                    ELSE Val(0)]

\* MultiTimeframeStorage.get_funding_dynamics
get_funding_dynamics(storage, coin, t) ==
    IF ~storage[coin].exists \/ Len(storage[coin].q) = 0 THEN NoDynamics
    ELSE LET q == storage[coin].q
             current_funding == q[Len(q)].funding_rate
             funding_4h == get_funding_at_time(storage, coin, 4, t)
             funding_8h == get_funding_at_time(storage, coin, 8, t)
             funding_12h == get_funding_at_time(storage, coin, 12, t)
             velocity_4h == current_funding - funding_4h.v
             velocity_older == funding_4h.v - funding_8h.v
         IN  IF ~funding_4h.present THEN NoDynamics
             ELSE [none |-> FALSE,
                   current |-> Val(current_funding),
                   funding_4h_ago |-> funding_4h,
                   velocity_4h |-> Val(velocity_4h),
                   funding_8h_ago |-> funding_8h,
                   velocity_8h |-> IF funding_8h.present
                                   THEN Val(current_funding - funding_8h.v)
                                   ELSE Absent,
                   funding_12h_ago |-> funding_12h,
                   acceleration |-> IF funding_8h.present
                                    THEN Val(velocity_4h - velocity_older)
                                    ELSE Val(0)]

(***************************************************************************)
(* tools/ie_fetch_open_interest.py: the OI history file and                *)
(* fetch_open_interest_metrics; ie/calculations.py.  A percentage is the   *)
(* exact fraction n/d (d > 0); a reported percentage is rounded to         *)
(* hundredths.                                                             *)
(***************************************************************************)
\* history[coin].append(entry); keep entries with timestamp > timestamp - 24h
update_oi_history(history, coin, quote, timestamp) ==
    LET appended == Append(history[coin].q, Snapshot(timestamp, quote))
        cutoff == timestamp - (24 * 3600)
    IN  [history EXCEPT ![coin] =
             [exists |-> TRUE,
              q |-> SelectSeq(appended, LAMBDA entry : entry.timestamp > cutoff)]]

\* min(history[coin], key=lambda x: abs(x["timestamp"] - target_time)):
\* the first of the entries at the least distance.
RECURSIVE min_by_distance(_, _)
min_by_distance(entries, target_time) ==
    IF Len(entries) = 1 THEN entries[1]
    ELSE LET rest == min_by_distance(Tail(entries), target_time)
         IN  IF Abs(entries[1].timestamp - target_time)
                    <= Abs(rest.timestamp - target_time)
             THEN entries[1]
             ELSE rest

\* _get_oi_at_time, called when the clock reads t.  It returns (oi, price);
\* the timestamp of the entry is kept to identify it.
tools_get_oi_at_time(history, coin, hours_ago, t) ==
    IF ~history[coin].exists \/ history[coin].q = <<>> THEN NotFound
    ELSE LET target_time == t - hours_ago * 3600
             closest_entry == min_by_distance(history[coin].q, target_time)
             time_diff == Abs(closest_entry.timestamp - target_time)
         IN  IF WithinTolerance(time_diff, ToolsTolerance) THEN Found(closest_entry)
             ELSE NotFound

Pct(current, previous) == [n |-> (current - previous) * 100, d |-> previous]

\* n/d > threshold, n/d < threshold, for a threshold in hundredths
PctAbove(p, threshold) == p.n * 100 > threshold * p.d

PctBelow(p, threshold) == p.n * 100 < threshold * p.d

\* round(p, 2), in hundredths
Round2(p) == (2 * p.n * 100 + p.d) \div (2 * p.d)

\* calculations.calculate_oi_change
calculate_oi_change(current_oi, previous_oi) ==
    IF previous_oi = 0 THEN [n |-> 0, d |-> 1] ELSE Pct(current_oi, previous_oi)

\* threshold_pct: float = 1.5
threshold_pct == 150

\* calculations.determine_oi_divergence
determine_oi_divergence(price_change_pct, oi_change_pct) ==
    LET price_up == PctAbove(price_change_pct, threshold_pct)
        price_down == PctBelow(price_change_pct, -threshold_pct)
        oi_up == PctAbove(oi_change_pct, threshold_pct)
        oi_down == PctBelow(oi_change_pct, -threshold_pct)
    IN  IF price_up /\ oi_up THEN "strong_bullish"
        ELSE IF price_up /\ oi_down THEN "weak_bullish"
        ELSE IF price_down /\ oi_up THEN "strong_bearish"
        ELSE IF price_down /\ oi_down THEN "weak_bearish"
        ELSE "neutral"

\* The except clauses of fetch_open_interest_metrics: an error dictionary.
FetchError(coin) == [kind |-> "fetch_error", coin |-> coin]

\* fetch_open_interest_metrics with use_cache=False, from the history it
\* has just updated; quote is what _fetch_raw_oi returned.
fetch_open_interest_metrics(history, coin, quote, t) ==
    LET oi_1h_ago == tools_get_oi_at_time(history, coin, 1, t)
        oi_4h_ago == tools_get_oi_at_time(history, coin, 4, t)
        oi_24h_ago == tools_get_oi_at_time(history, coin, 24, t)
        change_4h_pct == calculate_oi_change(quote.oi, oi_4h_ago.oi)
        price_change_4h_pct == Pct(quote.price, oi_4h_ago.price)
    IN  IF oi_4h_ago.found /\ oi_4h_ago.price = 0 THEN FetchError(coin)
        ELSE [kind |-> "fetch",
              coin |-> coin,
              current_usd |-> quote.oi,
              current_price |-> quote.price,
              change_1h_pct |-> IF oi_1h_ago.found
                                THEN Val(Round2(calculate_oi_change(quote.oi, oi_1h_ago.oi)))
                                ELSE Absent,
              change_4h_pct |-> IF oi_4h_ago.found THEN Val(Round2(change_4h_pct))
                                ELSE Absent,
              change_24h_pct |-> IF oi_24h_ago.found
                                 THEN Val(Round2(calculate_oi_change(quote.oi, oi_24h_ago.oi)))
                                 ELSE Absent,
              divergence_type |-> IF oi_4h_ago.found
                                  THEN determine_oi_divergence(price_change_4h_pct,
                                                               change_4h_pct)
                                  ELSE "neutral",
              price_change_4h_pct |-> IF oi_4h_ago.found
                                      THEN Val(Round2(price_change_4h_pct))
                                      ELSE Absent,
              cached |-> FALSE]

(***************************************************************************)
(* The OI divergence metric: MetricsCalculator.calculate_all_metrics and   *)
(* .calculate_oi_divergence (strategy_monitor/metrics.py) and              *)
(* OIDivergenceMetric.calculate (emerald/metrics/implementations.py).      *)
(* The anchor is the historical snapshot, or None.                         *)
(***************************************************************************)
NoAnchor == [present |-> FALSE, oi |-> 0, price |-> 0]

Anchor(quote) == [present |-> TRUE, oi |-> quote.oi, price |-> quote.price]

Anchors == {NoAnchor} \cup {Anchor(q) : q \in Quotes \cup {[oi |-> 0, price |-> 100]}}

\* "oi_change_threshold": 3.0
oi_change_threshold == 300

UnknownDivergence ==
    [oi_change_pct |-> 0, price_change_pct |-> 0, divergence_type |-> "unknown"]

\* MetricsCalculator.calculate_oi_divergence; OIDivergenceMetric.calculate
\* after its `if not historical_oi` test.
calculate_oi_divergence(current_oi, historical_oi, current_price, historical_price) ==
    IF historical_oi = 0 \/ historical_price = 0 THEN UnknownDivergence
    ELSE LET oi_change_pct == Pct(current_oi, historical_oi)
             price_change_pct == Pct(current_price, historical_price)
             up == PctAbove(oi_change_pct, oi_change_threshold)
             down == PctBelow(oi_change_pct, -oi_change_threshold)
         IN  [oi_change_pct |-> Round2(oi_change_pct),
              price_change_pct |-> Round2(price_change_pct),
              divergence_type |->
                  IF up /\ PctAbove(price_change_pct, 100) THEN "strong_bullish"
                  ELSE IF up /\ PctBelow(price_change_pct, -100) THEN "strong_bearish"
                  ELSE IF down /\ PctAbove(price_change_pct, 100) THEN "weak_bullish"
                  ELSE IF down /\ PctBelow(price_change_pct, -100) THEN "weak_bearish"
                  ELSE "neutral"]

\* A variant of calculate_all_metrics that treats a missing anchor as a
\* snapshot of zero change.
calculate_all_metrics_oi_zero(historical_oi, current) ==
    IF historical_oi.present
    THEN calculate_oi_divergence(current.oi, historical_oi.oi, current.price,
                                 historical_oi.price)
    ELSE [oi_change_pct |-> 0, price_change_pct |-> 0, divergence_type |-> "neutral"]

\* Step 5 of calculate_all_metrics: the keys oi_divergence_type,
\* oi_change_pct and price_change_pct of the metrics dictionary.
calculate_all_metrics_oi(historical_oi, current) ==
    IF historical_oi.present
    THEN calculate_oi_divergence(current.oi, historical_oi.oi, current.price,
                                 historical_oi.price)
    ELSE UnknownDivergence

\* OIDivergenceMetric.calculate: the metadata of its MetricResult.
OIDivergenceMetric_calculate(historical_oi, current) ==
    IF ~historical_oi.present THEN UnknownDivergence
    ELSE calculate_oi_divergence(current.oi, historical_oi.oi, current.price,
                                 historical_oi.price)

(***************************************************************************)
(* History specification: one caller appends to the deques of the storage  *)
(* and to the history file, looks values up and computes the OI divergence *)
(* metric, while the clock advances.                                       *)
(***************************************************************************)
Times == {StartTime + e : e \in Elapsed}

AddOiSnapshotCall(coin, quote, timestamp) ==
    /\ appends < MaxAppends
    /\ appends' = appends + 1
    /\ oi_history' = add_oi_snapshot(oi_history, coin, quote, timestamp)
    /\ hret' = [kind |-> "add_oi"]
    /\ UNCHANGED <<wall, funding_history, oi_file, writerVars, notHist>>

\* add_oi_snapshot with the default timestamp (time.time()) or with a
\* timestamp of the caller.
AddOiSnapshot ==
    \E coin \in Coins, quote \in Quotes, timestamp \in {wall} \cup {wall - o : o \in Offsets} :
        AddOiSnapshotCall(coin, quote, timestamp)

GetOiAtTime ==
    \E coin \in Coins, hours_ago \in LookupHours :
        /\ hret' = [kind |-> "lookup", fn |-> "get_oi_at_time", coin |-> coin,
                    hours_ago |-> hours_ago,
                    entry |-> get_oi_at_time(oi_history, coin, hours_ago, wall)]
        /\ UNCHANGED <<wall, oi_history, funding_history, oi_file, appends,
                       writerVars, notHist>>

ToolsGetOiAtTime ==
    \E coin \in Coins, hours_ago \in LookupHours :
        /\ hret' = [kind |-> "lookup", fn |-> "_get_oi_at_time", coin |-> coin,
                    hours_ago |-> hours_ago,
                    entry |-> tools_get_oi_at_time(oi_file, coin, hours_ago, wall)]
        /\ UNCHANGED <<wall, oi_history, funding_history, oi_file, appends,
                       writerVars, notHist>>

\* fetch_open_interest_metrics(coin, use_cache=False) when _fetch_raw_oi
\* returns quote: _update_oi_history, the three lookups, the result.
FetchOpenInterestMetrics ==
    \E coin \in Coins, quote \in Quotes :
        /\ appends < MaxAppends
        /\ appends' = appends + 1
        /\ oi_file' = update_oi_history(oi_file, coin, quote, wall)
        /\ hret' = fetch_open_interest_metrics(oi_file', coin, quote, wall)
        /\ UNCHANGED <<wall, oi_history, funding_history, writerVars, notHist>>

\* fetch_open_interest_metrics when _fetch_raw_oi raises.
FetchOpenInterestFails ==
    \E coin \in Coins :
        /\ hret' = FetchError(coin)
        /\ UNCHANGED <<wall, oi_history, funding_history, oi_file, appends,
                       writerVars, notHist>>

CalculateAllMetrics ==
    \E historical_oi \in Anchors, current \in Quotes :
        /\ hret' = [kind |-> "metric", impl |-> "calculate_all_metrics",
                    anchor |-> historical_oi.present, raised |-> FALSE,
                    result |-> calculate_all_metrics_oi(historical_oi, current)]
        /\ UNCHANGED <<wall, oi_history, funding_history, oi_file, appends,
                       writerVars, notHist>>

OIDivergenceMetricCalculate ==
    \E historical_oi \in Anchors, current \in Quotes :
        /\ hret' = [kind |-> "metric", impl |-> "OIDivergenceMetric",
                    anchor |-> historical_oi.present, raised |-> FALSE,
                    result |-> OIDivergenceMetric_calculate(historical_oi, current)]
        /\ UNCHANGED <<wall, oi_history, funding_history, oi_file, appends,
                       writerVars, notHist>>

StoreTick ==
    \E t \in Times :
        /\ t > wall
        /\ wall' = t
        /\ hret' = NoHRet
        /\ UNCHANGED <<oi_history, funding_history, oi_file, appends,
                       writerVars, notHist>>

InitStore ==
    /\ HistIdle
    /\ ExtraIdle
    /\ ScoreIdle
    /\ ActIdle
    /\ CacheIdle
    /\ ThreadsIdle

NextStore ==
    \/ AddOiSnapshot
    \/ GetOiAtTime
    \/ ToolsGetOiAtTime
    \/ FetchOpenInterestMetrics
    \/ FetchOpenInterestFails
    \/ CalculateAllMetrics
    \/ OIDivergenceMetricCalculate
    \/ StoreTick

SpecStore == InitStore /\ [][NextStore]_vars

(***************************************************************************)
(* Funding specification: funding snapshots are appended and the funding   *)
(* dynamics read, every four hours.                                        *)
(***************************************************************************)
FundingTimes == {StartTime + e : e \in FundingElapsed}

AddFundingSnapshot ==
    \E coin \in Coins, rate \in FundingRates,
       timestamp \in {wall} \cup {wall - o : o \in Offsets} :
        /\ appends < MaxAppends
        /\ appends' = appends + 1
        /\ funding_history' = add_funding_snapshot(funding_history, coin, rate, timestamp)
        /\ hret' = [kind |-> "add_funding"]
        /\ UNCHANGED <<wall, oi_history, oi_file, writerVars, notHist>>

GetFundingAtTime ==
    \E coin \in Coins, hours_ago \in FundingLookupHours :
        /\ hret' = [kind |-> "funding_lookup", coin |-> coin, hours_ago |-> hours_ago,
                    rate |-> get_funding_at_time(funding_history, coin, hours_ago, wall)]
        /\ UNCHANGED <<wall, oi_history, funding_history, oi_file, appends,
                       writerVars, notHist>>

GetFundingDynamics ==
    \E coin \in Coins :
        /\ hret' = [kind |-> "dynamics", coin |-> coin,
                    dynamics |-> get_funding_dynamics(funding_history, coin, wall)]
        /\ UNCHANGED <<wall, oi_history, funding_history, oi_file, appends,
                       writerVars, notHist>>

FundingTick ==
    \E t \in FundingTimes :
        /\ t > wall
        /\ wall' = t
        /\ hret' = NoHRet
        /\ UNCHANGED <<oi_history, funding_history, oi_file, appends,
                       writerVars, notHist>>

NextFunding ==
    \/ AddFundingSnapshot
    \/ GetFundingAtTime
    \/ GetFundingDynamics
    \/ FundingTick

SpecFunding == InitStore /\ [][NextFunding]_vars

(***************************************************************************)
(* Writers specification: two callers run _update_oi_history for the same  *)
(* coin.  The function takes no lock: between loading the file and saving  *)
(* it, the other caller may load or save.                                  *)
(***************************************************************************)
\* history = _load_oi_history(); the entry is stamped and appended and the
\* list pruned, in the caller's own copy.
WriterLoad(w) ==
    \E coin \in Coins, quote \in Quotes :
        /\ wpc[w] = "idle"
        /\ Len(wlog) + Cardinality({v \in Writers : wpc[v] = "loaded"}) < MaxWrites
        /\ wpc' = [wpc EXCEPT ![w] = "loaded"]
        /\ wlocal' = [wlocal EXCEPT ![w] =
                          [coin |-> coin,
                           history |-> update_oi_history(oi_file, coin, quote, wall)]]
        /\ UNCHANGED <<wall, oi_history, funding_history, oi_file, hret, appends,
                       wlog, notHist>>

\* _save_oi_history(history): the file becomes the caller's copy.
WriterSave(w) ==
    /\ wpc[w] = "loaded"
    /\ wpc' = [wpc EXCEPT ![w] = "idle"]
    /\ oi_file' = wlocal[w].history
    /\ wlog' = Append(wlog, LET q == wlocal[w].history[wlocal[w].coin].q
                             IN  [coin |-> wlocal[w].coin, entry |-> q[Len(q)]])
    /\ UNCHANGED <<wall, oi_history, funding_history, hret, appends, wlocal, notHist>>

NextWriters ==
    \/ \E w \in Writers : WriterLoad(w)
    \/ \E w \in Writers : WriterSave(w)
    \/ StoreTick

SpecWriters == InitStore /\ [][NextWriters]_vars

(***************************************************************************)
(* Instruments specification: two callers run _update_oi_history in        *)
(* parallel, each for its own coin.  Both load and save the one file       *)
(* oi_history.json, which holds the series of every coin.                  *)
(***************************************************************************)
Instruments == {"BTC", "ETH"}

InstrumentOf == [w \in Writers |-> IF w = "w1" THEN "BTC" ELSE "ETH"]

InstrumentLoad(w) ==
    \E quote \in Quotes :
        /\ wpc[w] = "idle"
        /\ Len(wlog) + Cardinality({v \in Writers : wpc[v] = "loaded"}) < MaxWrites
        /\ wpc' = [wpc EXCEPT ![w] = "loaded"]
        /\ wlocal' = [wlocal EXCEPT ![w] =
                          [coin |-> InstrumentOf[w],
                           history |-> update_oi_history(oi_file, InstrumentOf[w], quote,
                                                         wall)]]
        /\ UNCHANGED <<wall, oi_history, funding_history, oi_file, hret, appends,
                       wlog, notHist>>

InitInstruments ==
    /\ ScoreIdle
    /\ ActIdle
    /\ CacheIdle
    /\ ThreadsIdle
    /\ ExtraIdle
    /\ wall = StartTime
    /\ oi_history = [c \in Coins |-> NoDeque]
    /\ funding_history = [c \in Coins |-> NoDeque]
    /\ oi_file = [c \in Instruments |-> NoDeque]
    /\ hret = NoHRet
    /\ appends = 0
    /\ wpc = [w \in Writers |-> "idle"]
    /\ wlocal = [w \in Writers |->
                     [coin |-> "none", history |-> [c \in Instruments |-> NoDeque]]]
    /\ wlog = <<>>

NextInstruments ==
    \/ \E w \in Writers : InstrumentLoad(w)
    \/ \E w \in Writers : WriterSave(w)
    \/ StoreTick

SpecInstruments == InitInstruments /\ [][NextInstruments]_vars

(***************************************************************************)
(* Scoring specification: a metrics dictionary is drawn, and each scorer   *)
(* evaluates it.                                                           *)
(***************************************************************************)
MaxScoreIn == 100

MaxCount == 5

ActInputs == [score : 0..MaxScoreIn, bullish : 0..MaxCount, bearish : 0..MaxCount]

Init ==
    /\ metrics \in MetricSets
    /\ scorer = "none"
    /\ signal = NoSignal
    /\ ActIdle
    /\ CacheIdle
    /\ ThreadsIdle
    /\ HistIdle
    /\ ExtraIdle

SignalGeneratorEvaluate ==
    /\ scorer' = "SignalGenerator"
    /\ signal' = generate_signal(metrics)
    /\ UNCHANGED <<metrics, notScore>>

ConvergenceStrategyEvaluate ==
    /\ scorer' = "ConvergenceStrategy"
    /\ signal' = ConvergenceStrategy_generate_signal(metrics)
    /\ UNCHANGED <<metrics, notScore>>

GenerateSummary ==
    /\ scorer' = "generate_summary"
    /\ signal' = generate_summary(metrics)
    /\ UNCHANGED <<metrics, notScore>>

Next == SignalGeneratorEvaluate \/ ConvergenceStrategyEvaluate \/ GenerateSummary

Spec == Init /\ [][Next]_vars

(***************************************************************************)
(* Metric failures: MetricRegistry.calculate_all (emerald/metrics/base.py) *)
(* and fetch_institutional_metrics.  The outcome of a metric is "ok" with  *)
(* its value, "invalid" (validate_data is false; the fetch is not          *)
(* included) or "raised" (calculate raises; the fetch returns an error     *)
(* dictionary).                                                            *)
(***************************************************************************)
Ok(v) == [kind |-> "ok", v |-> v]

Failures(v) == {[kind |-> "invalid", v |-> v], [kind |-> "raised", v |-> v]}

OutcomeSets ==
    [ob_imbalance : {Ok(48), Ok(-65)} \cup Failures(0),
     flow_imbalance : {Ok(45)} \cup Failures(0),
     vwap_z_score : {Ok(-160)} \cup Failures(0),
     funding_annualized : {Ok(1095)} \cup Failures(0),
     oi_divergence_type : {Ok("strong_bullish")} \cup Failures("absent"),
     basis_pct : {Ok(35)} \cup Failures(0)]

\* results[name] = result, for the metrics that validate and do not raise
RegistryResults(o) ==
    [ob_imbalance |-> IF o.ob_imbalance.kind = "ok" THEN Val(o.ob_imbalance.v) ELSE Absent,
     flow_imbalance |-> IF o.flow_imbalance.kind = "ok" THEN Val(o.flow_imbalance.v)
                        ELSE Absent,
     vwap_z_score |-> IF o.vwap_z_score.kind = "ok" THEN Val(o.vwap_z_score.v) ELSE Absent,
     funding_annualized |-> IF o.funding_annualized.kind = "ok"
                            THEN Val(o.funding_annualized.v) ELSE Absent,
     oi_divergence_type |-> IF o.oi_divergence_type.kind = "ok"
                            THEN o.oi_divergence_type.v ELSE "absent",
     basis_pct |-> IF o.basis_pct.kind = "ok" THEN Val(o.basis_pct.v) ELSE Absent]

\* A variant of calculate_all without the try/except around each metric.
calculate_all_uncaught(o) ==
    [raised |-> \E n \in MetricNames : o[n].kind = "raised", results |-> RegistryResults(o)]

\* MetricRegistry.calculate_all: an exception of a metric is caught and the
\* loop continues.
calculate_all(o) == [raised |-> FALSE, results |-> RegistryResults(o)]

\* fetch_institutional_metrics: the metrics dictionary _generate_summary
\* receives.  A fetch that returned an error is None, a fetch not included
\* is no key; there is no VWAP fetch.
fetch_institutional_metrics(o) == [RegistryResults(o) EXCEPT !.vwap_z_score = Absent]

MetricRegistryCalculateAll ==
    LET r == calculate_all(outcomes)
    IN  /\ scorer' = IF r.raised THEN "raised" ELSE "calculate_all"
        /\ metrics' = IF r.raised THEN metrics ELSE r.results
        /\ signal' = NoSignal
        /\ UNCHANGED <<outcomes, notPipeline>>

FetchInstitutionalMetrics ==
    /\ scorer' = "fetch_institutional_metrics"
    /\ metrics' = fetch_institutional_metrics(outcomes)
    /\ signal' = generate_summary(metrics')
    /\ UNCHANGED <<outcomes, notPipeline>>

InitPipeline ==
    /\ outcomes \in OutcomeSets
    /\ ScoreIdle
    /\ ActIdle
    /\ CacheIdle
    /\ ThreadsIdle
    /\ HistIdle
    /\ EvalsIdle
    /\ CallIdle

NextPipeline ==
    \/ MetricRegistryCalculateAll
    \/ ConvergenceStrategyEvaluate
    \/ FetchInstitutionalMetrics

SpecPipeline == InitPipeline /\ [][NextPipeline]_vars

(***************************************************************************)
(* Repeated evaluation of one snapshot: SignalGenerator.generate_signal,   *)
(* ConvergenceStrategy.generate_signal and fetch_open_interest_metrics,    *)
(* each call recorded in evals with what it returned.  wall is time.time() *)
(* and datetime.now().                                                     *)
(***************************************************************************)
MaxEvals == 3

MaxEvalTicks == 2

OiKey == "oi:BTC"

\* SignalGenerator.generate_signal: the dictionary returned, 'timestamp':
\* datetime.now() included.
SignalGeneratorGenerateSignal ==
    /\ Len(evals) < MaxEvals
    /\ evals' = Append(evals, [fn |-> "SignalGenerator.generate_signal", input |-> "metrics",
                               out |-> generate_signal(metrics), timestamp |-> wall])
    /\ UNCHANGED <<metrics, wall, oi_file, cache, hits, misses, sets, notEvals>>

\* ConvergenceStrategy.generate_signal: Signal(..., timestamp=datetime.now())
ConvergenceStrategyGenerateSignal ==
    /\ Len(evals) < MaxEvals
    /\ evals' = Append(evals, [fn |-> "ConvergenceStrategy.generate_signal",
                               input |-> "metrics",
                               out |-> ConvergenceStrategy_generate_signal(metrics),
                               timestamp |-> wall])
    /\ UNCHANGED <<metrics, wall, oi_file, cache, hits, misses, sets, notEvals>>

\* fetch_open_interest_metrics(coin, use_cache=True) when _fetch_raw_oi
\* returns quote: a hit of the cache returns the cached dictionary with
\* "cached" set; otherwise the history is updated and the result cached.
FetchOpenInterestMetricsCached ==
    \E coin \in Coins, quote \in Quotes :
        /\ Len(evals) < MaxEvals
        /\ IF GetHit(cache, OiKey, OpenInterestTTL, wall)
           THEN /\ evals' = Append(evals, [fn |-> "fetch_open_interest_metrics",
                                           input |-> quote,
                                           out |-> [cache[OiKey].data EXCEPT !.cached = TRUE],
                                           timestamp |-> 0])
                /\ cache' = [cache EXCEPT ![OiKey].data.cached = TRUE]
                /\ hits' = hits + 1
                /\ UNCHANGED <<misses, sets, oi_file>>
           ELSE LET history == update_oi_history(oi_file, coin, quote, wall)
                    fetched == fetch_open_interest_metrics(history, coin, quote, wall)
                IN  /\ oi_file' = history
                    /\ evals' = Append(evals, [fn |-> "fetch_open_interest_metrics",
                                               input |-> quote, out |-> fetched,
                                               timestamp |-> 0])
                    /\ cache' = [GetCache(cache, OiKey, OpenInterestTTL, wall)
                                     EXCEPT ![OiKey] = Entry(fetched, wall)]
                    /\ misses' = misses + 1
                    /\ sets' = sets + 1
                    /\ hits' = hits
        /\ UNCHANGED <<metrics, wall, notEvals>>

\* The clock between two calls.
EvalTick ==
    /\ wall < StartTime + MaxEvalTicks
    /\ wall' = wall + 1
    /\ UNCHANGED <<metrics, evals, oi_file, cache, hits, misses, sets, notEvals>>

EvalSnapshots ==
    {m \in MetricSets :
         /\ m.ob_imbalance \in {Val(48), Val(-65)}
         /\ m.flow_imbalance \in {Val(45), Absent}
         /\ m.vwap_z_score = Val(-160)
         /\ m.funding_annualized \in {Val(1095), Val(-1200)}
         /\ m.oi_divergence_type = "strong_bullish"
         /\ m.basis_pct = Absent}

InitEvals ==
    /\ metrics \in EvalSnapshots
    /\ scorer = "none"
    /\ signal = NoSignal
    /\ ActIdle
    /\ CacheIdle
    /\ ThreadsIdle
    /\ HistIdle
    /\ ExtraIdle

NextEvals ==
    \/ SignalGeneratorGenerateSignal
    \/ ConvergenceStrategyGenerateSignal
    \/ FetchOpenInterestMetricsCached
    \/ EvalTick

SpecEvals == InitEvals /\ [][NextEvals]_vars

(***************************************************************************)
(* Setup validation: check_htf_alignment (ict/htf_alignment.py) and        *)
(* validate_bullish_setup (ict/setup_validator.py).  The structure of a    *)
(* timeframe (validate_timeframe_structure) and the dealing range          *)
(* (calculate_dealing_range) are inputs: structures maps a timeframe to    *)
(* its bias, or to "missing" when multi_tf_candles has no such key.        *)
(* Prices are whole dollars.  The confidence, the second target and the    *)
(* stop, which depend on ICT_CONFIG, are left out of the results.          *)
(***************************************************************************)
Timeframes == {"1d", "4h", "1h"}

Biases == {"BULLISH", "BEARISH", "NEUTRAL"}

\* Required alignment: Daily + 4H + 1H
htf_required_timeframes == <<"1d", "4h", "1h">>

RequiredLists == {htf_required_timeframes, <<"4h", "1h">>}

Range(seq) == {seq[i] : i \in DOMAIN seq}

\* [tf for tf in required_timeframes if structures[tf]["bias"] == bias]
WithBias(structures, required_timeframes, bias) ==
    SelectSeq(required_timeframes, LAMBDA tf : structures[tf] = bias)

NotAligned(error, conflicts) ==
    [fn |-> "check_htf_alignment", aligned |-> FALSE, bias |-> "none",
     conflicts |-> conflicts, error |-> error]

\* A variant of check_htf_alignment without the NEUTRAL test.
check_htf_alignment_neutral_ok(structures, required_timeframes) ==
    LET first_bias == structures[required_timeframes[1]]
    IN  IF \E tf \in Range(required_timeframes) : structures[tf] = "missing"
        THEN NotAligned("Missing required timeframes", <<>>)
        ELSE IF \A tf \in Range(required_timeframes) : structures[tf] = first_bias
        THEN [fn |-> "check_htf_alignment", aligned |-> TRUE, bias |-> first_bias,
              conflicts |-> <<>>, error |-> "none"]
        ELSE NotAligned("HTF conflict", <<>>)

check_htf_alignment(structures, required_timeframes) ==
    LET missing_tfs == SelectSeq(required_timeframes, LAMBDA tf : structures[tf] = "missing")
        neutral_tfs == WithBias(structures, required_timeframes, "NEUTRAL")
        bullish_tfs == WithBias(structures, required_timeframes, "BULLISH")
        bearish_tfs == WithBias(structures, required_timeframes, "BEARISH")
        first_bias == structures[required_timeframes[1]]
        all_agree == \A tf \in Range(required_timeframes) : structures[tf] = first_bias
    IN  IF missing_tfs # <<>> THEN NotAligned("Missing required timeframes", <<>>)
        ELSE IF neutral_tfs # <<>> THEN NotAligned("Neutral structure", neutral_tfs)
        ELSE IF ~all_agree
        THEN NotAligned("HTF conflict",
                        IF Len(bearish_tfs) > Len(bullish_tfs) THEN bullish_tfs
                        ELSE bearish_tfs)
        ELSE [fn |-> "check_htf_alignment", aligned |-> TRUE, bias |-> first_bias,
              conflicts |-> <<>>, error |-> "none"]

\* The results of calculate_dealing_range for the current price.
NoDealingRange == [valid |-> FALSE, range_low |-> 0, range_high |-> 0, zone |-> "unknown"]

DealingRange(zone) == [valid |-> TRUE, range_low |-> 66000, range_high |-> 68000, zone |-> zone]

PricedRanges ==
    {[current_price |-> 66200, dealing_range |-> DealingRange("discount")],
     [current_price |-> 67000, dealing_range |-> DealingRange("mid-range")],
     [current_price |-> 67800, dealing_range |-> DealingRange("premium")],
     [current_price |-> 66200, dealing_range |-> NoDealingRange]}

is_price_in_discount(dealing_range) == dealing_range.valid /\ dealing_range.zone = "discount"

Invalid(direction, reason) ==
    [fn |-> "validate_bullish_setup", valid |-> FALSE, direction |-> direction,
     reason |-> reason, entry_price |-> 0, target_1 |-> 0]

validate_bullish_setup(structures, dealing_range, current_price) ==
    LET htf == check_htf_alignment(structures, htf_required_timeframes)
    IN  IF ~htf.aligned THEN Invalid("none", "HTF not aligned")
        ELSE IF htf.bias # "BULLISH" THEN Invalid("none", "HTF bias is not BULLISH")
        ELSE IF ~dealing_range.valid THEN Invalid("LONG", "No clear dealing range")
        ELSE IF ~is_price_in_discount(dealing_range)
        THEN Invalid("LONG", "Price not in discount")
        ELSE [fn |-> "validate_bullish_setup", valid |-> TRUE, direction |-> "LONG",
              reason |-> "none", entry_price |-> current_price,
              target_1 |-> dealing_range.range_high]

\* SignalGenerator._calculate_price_levels: the entry and the stop, in cents
calculate_price_levels(action, current_price) ==
    IF action = "SKIP" \/ current_price = 0 THEN [entry |-> 0, stop |-> 0]
    ELSE IF action = "LONG"
    THEN [entry |-> current_price * 100, stop |-> current_price * 98]
    ELSE [entry |-> current_price * 100, stop |-> current_price * 102]

SetupCalls ==
    {[fn |-> "setup", structures |-> st, required_timeframes |-> rq,
      dealing_range |-> pr.dealing_range, current_price |-> pr.current_price] :
         st \in [Timeframes -> Biases \cup {"missing"}], rq \in RequiredLists,
         pr \in PricedRanges}

\* The metrics of the end-to-end scenario: order-book imbalance +0.48,
\* funding +10.95% annualized, OI divergence strong_bullish.
ScenarioMetrics ==
    [ob_imbalance |-> Val(48), flow_imbalance |-> Absent, vwap_z_score |-> Absent,
     funding_annualized |-> Val(1095), oi_divergence_type |-> "strong_bullish",
     basis_pct |-> Absent]

SetupMetrics ==
    {ScenarioMetrics, [ScenarioMetrics EXCEPT !.funding_annualized = Absent]}

CheckHtfAlignment ==
    /\ result' = check_htf_alignment(call.structures, call.required_timeframes)
    /\ UNCHANGED <<call, notCall>>

ValidateBullishSetup ==
    /\ result' = validate_bullish_setup(call.structures, call.dealing_range,
                                        call.current_price)
    /\ UNCHANGED <<call, notCall>>

InitSetup ==
    /\ call \in SetupCalls
    /\ result = NoCall
    /\ metrics \in SetupMetrics
    /\ scorer = "none"
    /\ signal = NoSignal
    /\ ActIdle
    /\ CacheIdle
    /\ ThreadsIdle
    /\ HistIdle
    /\ OutcomesIdle
    /\ EvalsIdle

NextSetup ==
    \/ CheckHtfAlignment
    \/ ValidateBullishSetup
    \/ SignalGeneratorEvaluate
    \/ GenerateSummary

SpecSetup == InitSetup /\ [][NextSetup]_vars

(***************************************************************************)
(* Interval and timeframe keys: get_interval_constraint (config/settings)  *)
(* and analyze_timeframe_convergence                                       *)
(* (tools/ie_multi_timeframe_convergence.py).  The results of the fetches  *)
(* are inputs of a call: a value, or Absent for an error dictionary.       *)
(* Imbalances and percentages are in hundredths, max_lookback_hours in     *)
(* tenths of an hour.                                                      *)
(***************************************************************************)
INTERVAL_CONSTRAINTS ==
    [i \in {"1m", "5m", "15m", "1h", "4h", "1d"} |->
         IF i = "1m" THEN [max_lookback_hours |-> 15, interval_minutes |-> 1]
         ELSE IF i = "5m" THEN [max_lookback_hours |-> 60, interval_minutes |-> 5]
         ELSE IF i = "15m" THEN [max_lookback_hours |-> 240, interval_minutes |-> 15]
         ELSE IF i = "1h" THEN [max_lookback_hours |-> 840, interval_minutes |-> 60]
         ELSE IF i = "4h" THEN [max_lookback_hours |-> 3360, interval_minutes |-> 240]
         ELSE [max_lookback_hours |-> 20160, interval_minutes |-> 1440]]

IntervalInputs == {"1m", "5m", "15m", "1h", "4h", "1d", "1H", "1D", "2h", "1w", ""}

\* interval.lower(), on the inputs
Lower(interval) ==
    IF interval = "1H" THEN "1h" ELSE IF interval = "1D" THEN "1d" ELSE interval

Raised(fn, error) == [fn |-> fn, raised |-> TRUE, error |-> error]

get_interval_constraint(interval) ==
    LET normalized == Lower(interval)
    IN  IF normalized \notin DOMAIN INTERVAL_CONSTRAINTS
        THEN Raised("get_interval_constraint", "ValueError")
        ELSE [fn |-> "get_interval_constraint", raised |-> FALSE, error |-> "none",
              constraints |-> INTERVAL_CONSTRAINTS[normalized]]

\* The keys of timeframe_map in fetch_vwap_for_timeframe
timeframe_map == {"1m", "5m", "15m", "1h"}

TimeframeInputs == {"1m", "5m", "15m", "4h", "2h"}

\* The lists of timeframes of a call, by the set of their elements.
TimeframeLists == {t \in SUBSET TimeframeInputs : Cardinality(t) \in {1, 2}}

\* deviation_pct of the VWAP fetch of each timeframe of the map
Deviations == [timeframe_map -> {150, -150}]

\* fetch_vwap_for_timeframe: raises ValueError on a timeframe that is not
\* in the map.
fetch_vwap_for_timeframe(deviations, timeframe) ==
    IF timeframe \notin timeframe_map THEN Raised("fetch_vwap_for_timeframe", "ValueError")
    ELSE [fn |-> "fetch_vwap_for_timeframe", raised |-> FALSE, error |-> "none",
          deviation_pct |-> deviations[timeframe]]

Conviction(score) ==
    IF score >= 85 THEN "max_size_trade"
    ELSE IF score >= 70 THEN "standard_size_trade"
    ELSE IF score >= 50 THEN "reduced_size_trade"
    ELSE "no_trade"

\* analyze_timeframe_convergence: every fetch is wrapped in try/except
\* Exception, an exception becomes {"error": str(e)} in the result.
analyze_timeframe_convergence(c) ==
    LET vwap_data == [tf \in c.timeframes |-> fetch_vwap_for_timeframe(c.deviations, tf)]
        errors == {tf \in c.timeframes : vwap_data[tf].raised}
        good == c.timeframes \ errors
        all_positive == \A tf \in good : vwap_data[tf].deviation_pct > 100
        all_negative == \A tf \in good : vwap_data[tf].deviation_pct < -100
        funding_pct == c.funding.v
        basis_pct == c.basis.v
        score ==
            (IF c.ob.present /\ Abs(c.ob.v) > 40 THEN 25 ELSE 0)
            + (IF c.trade_flow.present /\ Abs(c.trade_flow.v) > 40 THEN 25 ELSE 0)
            + (IF Cardinality(good) >= 2 /\ (all_positive \/ all_negative) THEN 30 ELSE 0)
            + (IF c.funding.present /\ c.basis.present
               THEN IF funding_pct > 1000 /\ basis_pct > 20 THEN 20
                    ELSE IF funding_pct < -1000 /\ basis_pct < -20 THEN 20
                    ELSE IF \/ funding_pct > 1000 /\ basis_pct < -10
                            \/ funding_pct < -1000 /\ basis_pct > 10
                    THEN -15 ELSE 0
               ELSE 0)
    IN  [fn |-> "analyze_timeframe_convergence", raised |-> FALSE, error |-> "none",
         convergence_score |-> Max2(0, score),
         recommendation |-> Conviction(Max2(0, score)),
         timeframes_analyzed |-> c.timeframes,
         vwap_errors |-> errors]

AnalyzeCalls ==
    [fn : {"analyze_timeframe_convergence"},
     timeframes : TimeframeLists,
     deviations : Deviations,
     ob : {Val(48), Absent},
     trade_flow : {Val(45), Absent},
     funding : {Val(1095), Absent},
     basis : {Val(35), Val(-15), Absent}]

IntervalCalls == [fn : {"get_interval_constraint"}, interval : IntervalInputs]

GetIntervalConstraint ==
    /\ call.fn = "get_interval_constraint"
    /\ result' = get_interval_constraint(call.interval)
    /\ UNCHANGED <<call, notCall>>

AnalyzeTimeframeConvergence ==
    /\ call.fn = "analyze_timeframe_convergence"
    /\ result' = analyze_timeframe_convergence(call)
    /\ UNCHANGED <<call, notCall>>

InitIntervals ==
    /\ call \in IntervalCalls \cup AnalyzeCalls
    /\ result = NoCall
    /\ ScoreIdle
    /\ ActIdle
    /\ CacheIdle
    /\ ThreadsIdle
    /\ HistIdle
    /\ OutcomesIdle
    /\ EvalsIdle

NextIntervals ==
    \/ GetIntervalConstraint
    \/ AnalyzeTimeframeConvergence

SpecIntervals == InitIntervals /\ [][NextIntervals]_vars

(***************************************************************************)
(* Position sizing: calculate_position_size (ict/setup_validator.py).      *)
(* Balances and prices are whole dollars, risk_pct whole percents;         *)
(* position_size is in ten-thousandths of a unit, the dollar amounts of    *)
(* the result in cents.                                                    *)
(***************************************************************************)
\* round(p, 4), in ten-thousandths
Round4(p) == (2 * p.n * 10000 + p.d) \div (2 * p.d)

SizingError(error, divided) ==
    [fn |-> "calculate_position_size", error |-> error, divided |-> divided,
     position_size |-> 0, risk_amount |-> 0, risk_per_unit |-> 0, notional_value |-> 0]

Sized(account_balance, risk_pct, entry_price, risk_per_unit, leverage) ==
    LET position_size ==
            [n |-> account_balance * risk_pct * leverage, d |-> 100 * risk_per_unit]
    IN  [fn |-> "calculate_position_size", error |-> "none", divided |-> TRUE,
         position_size |-> Round4(position_size),
         risk_amount |-> Round2([n |-> account_balance * risk_pct, d |-> 100]),
         risk_per_unit |-> risk_per_unit * 100,
         notional_value |-> Round2([n |-> position_size.n * entry_price,
                                    d |-> position_size.d])]

\* A variant of calculate_position_size without the test of risk_per_unit:
\* the division of risk_amount by 0 raises.
calculate_position_size_unchecked(account_balance, risk_pct, entry_price, stop_loss, leverage) ==
    LET risk_per_unit == Abs(entry_price - stop_loss)
    IN  IF risk_per_unit = 0 THEN SizingError("ZeroDivisionError", TRUE)
        ELSE Sized(account_balance, risk_pct, entry_price, risk_per_unit, leverage)

calculate_position_size(account_balance, risk_pct, entry_price, stop_loss, leverage) ==
    LET risk_per_unit == Abs(entry_price - stop_loss)
    IN  IF risk_per_unit = 0
        THEN SizingError("Invalid stop loss - same as entry price", FALSE)
        ELSE Sized(account_balance, risk_pct, entry_price, risk_per_unit, leverage)

SizingCalls ==
    [fn : {"calculate_position_size"},
     account_balance : {1000, 5000},
     risk_pct : {1, 2},
     entry_price : {200, 100},
     stop_loss : {190, 200, 210, 97, 100},
     leverage : {1, 3}]

CalculatePositionSize ==
    /\ call.fn = "calculate_position_size"
    /\ result' = calculate_position_size(call.account_balance, call.risk_pct,
                                         call.entry_price, call.stop_loss, call.leverage)
    /\ UNCHANGED <<call, notCall>>

InitSizing ==
    /\ call \in SizingCalls
    /\ result = NoCall
    /\ ScoreIdle
    /\ ActIdle
    /\ CacheIdle
    /\ ThreadsIdle
    /\ HistIdle
    /\ OutcomesIdle
    /\ EvalsIdle

NextSizing == CalculatePositionSize

SpecSizing == InitSizing /\ [][NextSizing]_vars

(***************************************************************************)
(* Confidence specification: _determine_confidence of both scorers over    *)
(* every (score, bullish, bearish) of the bounded input space; the callers *)
(* pass max(bullish, bearish) as the number of aligned signals.            *)
(***************************************************************************)
\* ConvergenceStrategy._determine_confidence
ConvergenceStrategy_determine_confidence(score, aligned) ==
    IF score >= 85 /\ aligned >= 4 THEN "HIGH"
    ELSE IF score >= 70 /\ aligned >= 3 THEN "MEDIUM"
    ELSE "LOW"

ConfidenceCalls ==
    [fn : {"determine_confidence"}, score : 0..MaxScoreIn, bullish : 0..MaxCount,
     bearish : 0..MaxCount]

SignalGeneratorDetermineConfidence ==
    /\ call.fn = "determine_confidence"
    /\ result' = [fn |-> "SignalGenerator._determine_confidence",
                  confidence |-> determine_confidence(call.score,
                                                      Max2(call.bullish, call.bearish))]
    /\ UNCHANGED <<call, notCall>>

ConvergenceStrategyDetermineConfidence ==
    /\ call.fn = "determine_confidence"
    /\ result' = [fn |-> "ConvergenceStrategy._determine_confidence",
                  confidence |-> ConvergenceStrategy_determine_confidence(
                                     call.score, Max2(call.bullish, call.bearish))]
    /\ UNCHANGED <<call, notCall>>

InitConfidence ==
    /\ call \in ConfidenceCalls
    /\ result = NoCall
    /\ ScoreIdle
    /\ ActIdle
    /\ CacheIdle
    /\ ThreadsIdle
    /\ HistIdle
    /\ OutcomesIdle
    /\ EvalsIdle

NextConfidence ==
    \/ SignalGeneratorDetermineConfidence
    \/ ConvergenceStrategyDetermineConfidence

SpecConfidence == InitConfidence /\ [][NextConfidence]_vars

(***************************************************************************)
(* Price levels.  Prices are integers in ten-thousandths of a dollar; the  *)
(* returned levels are in cents, as round(x, 2) leaves them.  The inputs   *)
(* avoid exact half-cent ties, whose rounding depends on the float's bits. *)
(***************************************************************************)
\* round(n / d dollars-e-4 , 2) in cents, for a quotient that is not a tie
RoundCents(n, d) == (n + (d \div 2)) \div d

LevelPrices == {0, 40, 100, 1234, 1000000}
LevelVwaps == {0, 90, 1300, 990000, 1020000}

\* the stop on the wrong side of the entry
SignalGenerator_calculate_price_levels_swapped(action, current_price, vwap) ==
    IF action = "SKIP" \/ current_price = 0
    THEN [entry |-> 0, stop |-> 0, target |-> 0]
    ELSE LET v == IF vwap = 0 THEN current_price ELSE vwap
         IN  IF action = "LONG"
             THEN [entry |-> RoundCents(current_price, 100),
                   stop |-> RoundCents(current_price * 102, 10000),
                   target |-> RoundCents(Max2(v * 1010, current_price * 1015), 100000)]
             ELSE [entry |-> RoundCents(current_price, 100),
                   stop |-> RoundCents(current_price * 98, 10000),
                   target |-> RoundCents(Min2(v * 990, current_price * 985), 100000)]

\* SignalGenerator._calculate_price_levels
SignalGenerator_calculate_price_levels(action, current_price, vwap) ==
    IF action = "SKIP" \/ current_price = 0
    THEN [entry |-> 0, stop |-> 0, target |-> 0]
    ELSE LET v == IF vwap = 0 THEN current_price ELSE vwap
         IN  IF action = "LONG"
             THEN [entry |-> RoundCents(current_price, 100),
                   stop |-> RoundCents(current_price * 98, 10000),
                   target |-> RoundCents(Max2(v * 1010, current_price * 1015), 100000)]
             ELSE [entry |-> RoundCents(current_price, 100),
                   stop |-> RoundCents(current_price * 102, 10000),
                   target |-> RoundCents(Min2(v * 990, current_price * 985), 100000)]

\* ConvergenceStrategy._calculate_levels
ConvergenceStrategy_calculate_levels(action, current_price, vwap) ==
    IF action = "SKIP" \/ current_price = 0
    THEN [entry |-> 0, stop |-> 0, target |-> 0]
    ELSE LET v == IF vwap = 0 THEN current_price ELSE vwap
             entry == current_price
         IN  IF action = "LONG"
             THEN [entry |-> RoundCents(entry, 100),
                   stop |-> RoundCents(entry * 98, 10000),
                   target |-> RoundCents(Max2(v * 1010, entry * 1015), 100000)]
             ELSE [entry |-> RoundCents(entry, 100),
                   stop |-> RoundCents(entry * 102, 10000),
                   target |-> RoundCents(Min2(v * 990, entry * 985), 100000)]

LevelCalls ==
    [fn : {"levels"}, action : {"LONG", "SHORT", "SKIP"},
     current_price : LevelPrices, vwap : LevelVwaps]

SignalGeneratorCalculatePriceLevels ==
    /\ call.fn = "levels"
    /\ result = NoCall
    /\ result' = [fn |-> "SignalGenerator._calculate_price_levels",
                  levels |-> SignalGenerator_calculate_price_levels(
                                 call.action, call.current_price, call.vwap)]
    /\ UNCHANGED <<call, notCall>>

ConvergenceStrategyCalculateLevels ==
    /\ call.fn = "levels"
    /\ result = NoCall
    /\ result' = [fn |-> "ConvergenceStrategy._calculate_levels",
                  levels |-> ConvergenceStrategy_calculate_levels(
                                 call.action, call.current_price, call.vwap)]
    /\ UNCHANGED <<call, notCall>>

InitLevels ==
    /\ ScoreIdle /\ ActIdle /\ CacheIdle /\ ThreadsIdle /\ HistIdle
    /\ OutcomesIdle /\ EvalsIdle
    /\ call \in LevelCalls
    /\ result = NoCall

NextLevels ==
    \/ SignalGeneratorCalculatePriceLevels
    \/ ConvergenceStrategyCalculateLevels

SpecLevels == InitLevels /\ [][NextLevels]_vars

(***************************************************************************)
(* Swing detection.  A candle holds its high and its low as raw values; a  *)
(* raw value that float() rejects converts to NaN (Absent), which no       *)
(* comparison is true of.  Python index i is position i + 1 of a sequence. *)
(***************************************************************************)
MaxCandles == 5

\* a raw field of a candle: a number, a numeric string as the exchange sends
\* it, or something float() rejects
Num(x) == [kind |-> "num", v |-> x]

Str(x) == [kind |-> "str", v |-> x]

Bad == [kind |-> "bad", v |-> 0]

CandleSet ==
    {[h |-> Num(10), l |-> Num(7)], [h |-> Str(12), l |-> Str(6)],
     [h |-> Num(9), l |-> Str(8)], [h |-> Str(11), l |-> Num(5)],
     [h |-> Num(8), l |-> Num(7)], [h |-> Bad, l |-> Num(6)]}

CandleLists == UNION {[1..n -> CandleSet] : n \in 0..MaxCandles}

\* the min_candles argument: the three-candle pattern, or a longer minimum
MinCandles == {3, 5}

\* _to_num: float(x), NaN when the conversion fails
to_num(x) == IF x.kind = "bad" THEN Absent ELSE Val(x.v)

\* a > b on floats: false when either side is NaN
Gt(a, b) == a.present /\ b.present /\ a.v > b.v

\* a >= b on floats
Ge(a, b) == a.present /\ b.present /\ a.v >= b.v

\* range(1, len(candles) - 1)
InnerIndices(candles) == [k \in 1..Max2(Len(candles) - 2, 0) |-> k]

\* a swing high that only has to reach its neighbours
detect_swing_highs_nonstrict(candles, min_candles) ==
    IF Len(candles) < min_candles THEN <<>>
    ELSE LET is_high(i) == /\ Ge(to_num(candles[i + 1].h), to_num(candles[i].h))
                           /\ Ge(to_num(candles[i + 1].h), to_num(candles[i + 2].h))
             sel == SelectSeq(InnerIndices(candles), is_high)
         IN  [k \in 1..Len(sel) |->
                 [index |-> sel[k], price |-> to_num(candles[sel[k] + 1].h)]]

\* detect_swing_highs
detect_swing_highs(candles, min_candles) ==
    IF Len(candles) < min_candles THEN <<>>
    ELSE LET is_high(i) == /\ Gt(to_num(candles[i + 1].h), to_num(candles[i].h))
                           /\ Gt(to_num(candles[i + 1].h), to_num(candles[i + 2].h))
             sel == SelectSeq(InnerIndices(candles), is_high)
         IN  [k \in 1..Len(sel) |->
                 [index |-> sel[k], price |-> to_num(candles[sel[k] + 1].h)]]

\* detect_swing_lows
detect_swing_lows(candles, min_candles) ==
    IF Len(candles) < min_candles THEN <<>>
    ELSE LET is_low(i) == /\ Gt(to_num(candles[i].l), to_num(candles[i + 1].l))
                          /\ Gt(to_num(candles[i + 2].l), to_num(candles[i + 1].l))
             sel == SelectSeq(InnerIndices(candles), is_low)
         IN  [k \in 1..Len(sel) |->
                 [index |-> sel[k], price |-> to_num(candles[sel[k] + 1].l)]]

\* compute_three_candle_swings_raw: both lists, with the raw prices
compute_three_candle_swings_raw(candles) ==
    LET is_high(i) == /\ Gt(to_num(candles[i + 1].h), to_num(candles[i].h))
                      /\ Gt(to_num(candles[i + 1].h), to_num(candles[i + 2].h))
        is_low(i) == /\ Gt(to_num(candles[i].l), to_num(candles[i + 1].l))
                     /\ Gt(to_num(candles[i + 2].l), to_num(candles[i + 1].l))
        hs == SelectSeq(InnerIndices(candles), is_high)
        ls == SelectSeq(InnerIndices(candles), is_low)
    IN  [sh |-> [k \in 1..Len(hs) |-> [index |-> hs[k], price |-> candles[hs[k] + 1].h]],
         sl |-> [k \in 1..Len(ls) |-> [index |-> ls[k], price |-> candles[ls[k] + 1].l]]]

SwingCalls == [fn : {"swings"}, candles : CandleLists, min_candles : MinCandles]

DetectSwingHighs ==
    /\ call.fn = "swings"
    /\ result = NoCall
    /\ result' = [fn |-> "detect_swing_highs",
                  swing_highs |-> detect_swing_highs(call.candles, call.min_candles)]
    /\ UNCHANGED <<call, notCall>>

DetectSwingLows ==
    /\ call.fn = "swings"
    /\ result = NoCall
    /\ result' = [fn |-> "detect_swing_lows",
                  swing_lows |-> detect_swing_lows(call.candles, call.min_candles)]
    /\ UNCHANGED <<call, notCall>>

ComputeThreeCandleSwingsRaw ==
    /\ call.fn = "swings"
    /\ result = NoCall
    /\ LET r == compute_three_candle_swings_raw(call.candles)
       IN  result' = [fn |-> "compute_three_candle_swings_raw",
                      swing_highs |-> r.sh, swing_lows |-> r.sl]
    /\ UNCHANGED <<call, notCall>>

InitSwings ==
    /\ ScoreIdle /\ ActIdle /\ CacheIdle /\ ThreadsIdle /\ HistIdle
    /\ OutcomesIdle /\ EvalsIdle
    /\ call \in SwingCalls
    /\ result = NoCall

NextSwings ==
    \/ DetectSwingHighs
    \/ DetectSwingLows
    \/ ComputeThreeCandleSwingsRaw

SpecSwings == InitSwings /\ [][NextSwings]_vars

(***************************************************************************)
(* Structure bias.  A swing list is the sequence of its prices.  The       *)
(* minimum confidence, a configuration value, is an input in hundredths.   *)
(***************************************************************************)
MaxSwings == 4

SwingPrices == {1, 2, 3}

\* lists longer than five swings, of which only the last five are analysed
LongSwingLists == {<<3, 1, 2, 3, 3, 2>>, <<1, 3, 2, 1, 1, 2>>, <<2, 1, 2, 3, 3, 3>>}

SwingLists == UNION {[1..n -> SwingPrices] : n \in 0..MaxSwings} \cup LongSwingLists

MinStructureConfidences == {50, 60, 75}

\* swings[-5:] if len(swings) >= 5 else swings
RecentSwings(swings) ==
    IF Len(swings) >= 5 THEN SubSeq(swings, Len(swings) - 4, Len(swings)) ELSE swings

\* the transitions of a list that go up
HigherCount(swings) == Cardinality({i \in 2..Len(swings) : swings[i] > swings[i - 1]})

\* the transitions of a list that go down
LowerCount(swings) == Cardinality({i \in 2..Len(swings) : swings[i] < swings[i - 1]})

\* round(n / d, 2) in hundredths; a tie, exact only for d = 8, goes to even
RoundEven2(n, d) ==
    LET q == (n * 100) \div d
        r == (n * 100) % d
    IN  IF 2 * r < d THEN q
        ELSE IF 2 * r > d THEN q + 1
        ELSE IF q % 2 = 0 THEN q ELSE q + 1

\* the bias, the pattern and the confidence as a fraction [n, d] before the
\* minimum is applied
RawStructure(hh, lh, hl, ll) ==
    IF hh > 0 /\ hl > 0 /\ lh = 0 /\ ll = 0
    THEN [bias |-> "BULLISH", pattern |-> "HH/HL", n |-> 1, d |-> 1]
    ELSE IF hh >= lh /\ hl >= ll /\ hh + hl > 0
    THEN [bias |-> "BULLISH", pattern |-> "HH/HL", n |-> hh + hl, d |-> hh + hl + lh + ll]
    ELSE IF ll > 0 /\ lh > 0 /\ hh = 0 /\ hl = 0
    THEN [bias |-> "BEARISH", pattern |-> "LL/LH", n |-> 1, d |-> 1]
    ELSE IF ll >= hl /\ lh >= hh /\ ll + lh > 0
    THEN [bias |-> "BEARISH", pattern |-> "LL/LH", n |-> ll + lh, d |-> hh + hl + lh + ll]
    ELSE [bias |-> "NEUTRAL", pattern |-> "RANGING", n |-> 0, d |-> 1]

\* the bias kept whatever the confidence
determine_structure_bias_no_min(swing_highs, swing_lows, min_structure_confidence) ==
    IF Len(swing_highs) < 2 \/ Len(swing_lows) < 2
    THEN [bias |-> "NEUTRAL", pattern |-> "RANGING", confidence |-> 0]
    ELSE LET raw == RawStructure(HigherCount(RecentSwings(swing_highs)),
                                 LowerCount(RecentSwings(swing_highs)),
                                 HigherCount(RecentSwings(swing_lows)),
                                 LowerCount(RecentSwings(swing_lows)))
         IN  [bias |-> raw.bias, pattern |-> raw.pattern,
              confidence |-> RoundEven2(raw.n, raw.d)]

\* determine_structure_bias
determine_structure_bias(swing_highs, swing_lows, min_structure_confidence) ==
    IF Len(swing_highs) < 2 \/ Len(swing_lows) < 2
    THEN [bias |-> "NEUTRAL", pattern |-> "RANGING", confidence |-> 0]
    ELSE LET raw == RawStructure(HigherCount(RecentSwings(swing_highs)),
                                 LowerCount(RecentSwings(swing_highs)),
                                 HigherCount(RecentSwings(swing_lows)),
                                 LowerCount(RecentSwings(swing_lows)))
             below == raw.n * 100 < min_structure_confidence * raw.d
         IN  [bias |-> IF below THEN "NEUTRAL" ELSE raw.bias,
              pattern |-> IF below THEN "RANGING" ELSE raw.pattern,
              confidence |-> RoundEven2(raw.n, raw.d)]

StructureCalls ==
    [fn : {"structure"}, swing_highs : SwingLists, swing_lows : SwingLists,
     min_structure_confidence : MinStructureConfidences]

DetermineStructureBias ==
    /\ call.fn = "structure"
    /\ result = NoCall
    /\ result' = [fn |-> "determine_structure_bias",
                  structure |-> determine_structure_bias(
                      call.swing_highs, call.swing_lows, call.min_structure_confidence)]
    /\ UNCHANGED <<call, notCall>>

InitStructure ==
    /\ ScoreIdle /\ ActIdle /\ CacheIdle /\ ThreadsIdle /\ HistIdle
    /\ OutcomesIdle /\ EvalsIdle
    /\ call \in StructureCalls
    /\ result = NoCall

NextStructure == DetermineStructureBias

SpecStructure == InitStructure /\ [][NextStructure]_vars

(***************************************************************************)
(* VWAP.  A candle holds integer high, low, close and volume; a VWAP is    *)
(* the exact fraction [n, d] before any rounding.  The z-score, which      *)
(* needs a square root, is left out of the results.                        *)
(***************************************************************************)
\* VWAP_LOOKBACK_CANDLES = 60 and vwap_lookback_candles = 60, scaled down
VwapLookback == 2

MaxVwapCandles == 3

VwapCandleSet ==
    {[h |-> 103, l |-> 98, c |-> 100, v |-> 0], [h |-> 104, l |-> 99, c |-> 102, v |-> 0],
     [h |-> 103, l |-> 98, c |-> 100, v |-> 1], [h |-> 104, l |-> 99, c |-> 102, v |-> 3]}

VwapCandleLists == UNION {[1..n -> VwapCandleSet] : n \in 0..MaxVwapCandles}

RECURSIVE SumTypicalVolume(_), SumTypical(_), SumCloseVolume(_), SumVolume(_)
\* three times the sum of typical_price * volume
SumTypicalVolume(candles) ==
    IF candles = <<>> THEN 0
    ELSE (Head(candles).h + Head(candles).l + Head(candles).c) * Head(candles).v
             + SumTypicalVolume(Tail(candles))

\* three times the sum of the typical prices
SumTypical(candles) ==
    IF candles = <<>> THEN 0
    ELSE Head(candles).h + Head(candles).l + Head(candles).c + SumTypical(Tail(candles))

\* np.sum(prices * volumes)
SumCloseVolume(candles) ==
    IF candles = <<>> THEN 0
    ELSE Head(candles).c * Head(candles).v + SumCloseVolume(Tail(candles))

\* the total volume
SumVolume(candles) ==
    IF candles = <<>> THEN 0 ELSE Head(candles).v + SumVolume(Tail(candles))

\* candles[-lookback:]
LastCandles(candles, lookback) ==
    IF Len(candles) <= lookback THEN candles
    ELSE SubSeq(candles, Len(candles) - lookback + 1, Len(candles))

\* calculations.calculate_vwap
calculate_vwap(candles) ==
    IF candles = <<>> THEN [n |-> 0, d |-> 1]
    ELSE IF SumVolume(candles) = 0
    THEN [n |-> SumTypical(candles), d |-> 3 * Len(candles)]
    ELSE [n |-> SumTypicalVolume(candles), d |-> 3 * SumVolume(candles)]

NoVwapDeviation == [vwap |-> 0, vwap_deviation_pct |-> 0]

\* the VWAP of the closes and the deviation of the last close from it, both
\* rounded to hundredths
VwapOfCloses(recent) ==
    IF SumVolume(recent) = 0 THEN NoVwapDeviation
    ELSE LET pv == SumCloseVolume(recent)
             vol == SumVolume(recent)
             current_price == recent[Len(recent)].c
         IN  [vwap |-> Round2([n |-> pv, d |-> vol]),
              vwap_deviation_pct |-> Round2([n |-> (current_price * vol - pv) * 100, d |-> pv])]

\* MetricsCalculator.calculate_vwap_deviation
calculate_vwap_deviation(candles) ==
    IF candles = <<>> \/ Len(candles) < VwapLookback THEN NoVwapDeviation
    ELSE VwapOfCloses(LastCandles(candles, VwapLookback))

\* VWAPDeviationMetric.calculate
VWAPDeviationMetric_calculate(candles) == VwapOfCloses(LastCandles(candles, VwapLookback))

\* VWAPDeviationMetric.validate_data
VWAPDeviationMetric_validate_data(candles) == Len(candles) >= VwapLookback

VwapCalls == [fn : {"vwap"}, candles : VwapCandleLists]

CalculateVwap ==
    /\ call.fn = "vwap"
    /\ result = NoCall
    /\ result' = [fn |-> "calculate_vwap", window |-> call.candles,
                  vwap |-> calculate_vwap(call.candles)]
    /\ UNCHANGED <<call, notCall>>

CalculateVwapDeviation ==
    /\ call.fn = "vwap"
    /\ result = NoCall
    /\ result' = [fn |-> "MetricsCalculator.calculate_vwap_deviation",
                  window |-> LastCandles(call.candles, VwapLookback),
                  deviation |-> calculate_vwap_deviation(call.candles)]
    /\ UNCHANGED <<call, notCall>>

\* the registry calculates a metric only when validate_data accepts the data
VWAPDeviationMetricCalculate ==
    /\ call.fn = "vwap"
    /\ result = NoCall
    /\ VWAPDeviationMetric_validate_data(call.candles)
    /\ result' = [fn |-> "VWAPDeviationMetric.calculate",
                  window |-> LastCandles(call.candles, VwapLookback),
                  deviation |-> VWAPDeviationMetric_calculate(call.candles)]
    /\ UNCHANGED <<call, notCall>>

InitVwap ==
    /\ ScoreIdle /\ ActIdle /\ CacheIdle /\ ThreadsIdle /\ HistIdle
    /\ OutcomesIdle /\ EvalsIdle
    /\ call \in VwapCalls
    /\ result = NoCall

NextVwap ==
    \/ CalculateVwap
    \/ CalculateVwapDeviation
    \/ VWAPDeviationMetricCalculate

SpecVwap == InitVwap /\ [][NextVwap]_vars

(***************************************************************************)
(* OI divergence classification.  The values are chosen so that the change *)
(* from a historical value, when there is one, is a whole number of        *)
(* hundredths of a percent.                                                *)
(***************************************************************************)
ChangeVals == {-400, -350, -200, -150, -120, 0, 120, 150, 200, 350, 500}

HistoricalVals == {0, 10000}

CurrentVals == {10000 + c : c \in ChangeVals}

DivergenceCalls ==
    [fn : {"divergence"}, current_oi : CurrentVals, historical_oi : HistoricalVals,
     current_price : CurrentVals, historical_price : HistoricalVals]

\* determine_oi_divergence on the changes of the call, as
\* fetch_open_interest_metrics computes them
DetermineOiDivergence ==
    /\ call.fn = "divergence"
    /\ result = NoCall
    /\ call.historical_price # 0
    /\ result' = [fn |-> "determine_oi_divergence",
                  divergence_type |->
                      determine_oi_divergence(
                          Pct(call.current_price, call.historical_price),
                          calculate_oi_change(call.current_oi, call.historical_oi))]
    /\ UNCHANGED <<call, notCall>>

MetricsCalculatorCalculateOiDivergence ==
    /\ call.fn = "divergence"
    /\ result = NoCall
    /\ result' = [fn |-> "MetricsCalculator.calculate_oi_divergence",
                  divergence_type |->
                      calculate_oi_divergence(call.current_oi, call.historical_oi,
                                              call.current_price,
                                              call.historical_price).divergence_type]
    /\ UNCHANGED <<call, notCall>>

InitDivergence ==
    /\ ScoreIdle /\ ActIdle /\ CacheIdle /\ ThreadsIdle /\ HistIdle
    /\ OutcomesIdle /\ EvalsIdle
    /\ call \in DivergenceCalls
    /\ result = NoCall

NextDivergence ==
    \/ DetermineOiDivergence
    \/ MetricsCalculatorCalculateOiDivergence

SpecDivergence == InitDivergence /\ [][NextDivergence]_vars

(***************************************************************************)
(* Fetchers specification: two callers run a cached fetcher,               *)
(* fetch_order_book_metrics (fetch_open_interest_metrics uses the cache in *)
(* the same way), on the shared cache, while others invalidate, clear and  *)
(* clean it.  Each call of the cache is one step, since it runs under the  *)
(* cache's lock; the fetcher itself takes no lock, so between its get, its *)
(* request and its set the other caller may run.  In this specification    *)
(* setLog counts the get and set calls made since the last reset_stats,    *)
(* tret holds the kind of dictionary a fetcher returned and ret the last   *)
(* call made to the cache by anyone else.                                  *)
(***************************************************************************)
\* what no step of a fetcher touches
notFetchers == <<scoreVars, actVars, histVars, writerVars, extraVars>>

\* CACHE_TTL of the fetcher that owns the key
CACHE_TTL(key) == IF key = "oi:BTC" THEN OpenInterestTTL ELSE OrderBookTTL

NoCalls == [gets |-> 0, sets |-> 0]

\* the key the two callers fetch: both call fetch_order_book_metrics("BTC", 10)
FetcherKeys == {"order_book:BTC:10"}

MaxFetchCalls == 3

FetcherMaxNow == 3

\* cached_data = cache.get(cache_key, ttl=CACHE_TTL): a hit is returned, a
\* miss goes on to the request
FetcherGet(t) ==
    \E key \in FetcherKeys :
        /\ pc[t] = "idle"
        /\ hits + misses + sets < MaxFetchCalls
        /\ cache' = GetCache(cache, key, CACHE_TTL(key), now)
        /\ setLog' = [setLog EXCEPT !.gets = @ + 1]
        /\ evicted' = [evicted EXCEPT ![key] = @ \/ (cache[key].present /\ ~cache'[key].present)]
        /\ IF GetHit(cache, key, CACHE_TTL(key), now)
           THEN /\ hits' = hits + 1
                /\ misses' = misses
                /\ tret' = [tret EXCEPT ![t] = [kind |-> "cached", key |-> "none",
                                                data |-> "none"]]
                /\ UNCHANGED <<pc, op>>
           ELSE /\ misses' = misses + 1
                /\ hits' = hits
                /\ tret' = [tret EXCEPT ![t] = NoTRet]
                /\ pc' = [pc EXCEPT ![t] = "compute"]
                /\ op' = [op EXCEPT ![t] = [name |-> "fetch", key |-> key,
                                            ttl |-> CACHE_TTL(key), data |-> "none"]]
        /\ UNCHANGED <<now, sets, ret, written, lock, notFetchers>>

\* the request and the calculation: a result, or the error dictionary of the
\* except clauses, which is not cached
FetcherCompute(t) ==
    /\ pc[t] = "compute"
    /\ \/ \E data \in Data :
              /\ op' = [op EXCEPT ![t].data = data]
              /\ pc' = [pc EXCEPT ![t] = "store"]
              /\ UNCHANGED tret
       \/ /\ pc' = [pc EXCEPT ![t] = "idle"]
          /\ op' = [op EXCEPT ![t] = NoOp]
          /\ tret' = [tret EXCEPT ![t] = [kind |-> "error", key |-> "none",
                                          data |-> "none"]]
    /\ UNCHANGED <<cacheVars, lock, setLog, notFetchers>>

\* cache.set(cache_key, result); return result
FetcherStore(t) ==
    LET key == op[t].key
        data == op[t].data
    IN  /\ pc[t] = "store"
        /\ cache' = [cache EXCEPT ![key] = Entry(data, now)]
        /\ sets' = sets + 1
        /\ setLog' = [setLog EXCEPT !.sets = @ + 1]
        /\ written' = [written EXCEPT ![key] = [present |-> TRUE, v |-> data, t |-> now]]
        /\ evicted' = [evicted EXCEPT ![key] = FALSE]
        /\ pc' = [pc EXCEPT ![t] = "idle"]
        /\ op' = [op EXCEPT ![t] = NoOp]
        /\ tret' = [tret EXCEPT ![t] = [kind |-> "fetched", key |-> "none", data |-> "none"]]
        /\ UNCHANGED <<now, hits, misses, ret, lock, notFetchers>>

\* reset_stats, which starts a new count of the calls
FetcherResetStats ==
    /\ hits + misses + sets > 0
    /\ hits' = 0
    /\ misses' = 0
    /\ sets' = 0
    /\ setLog' = NoCalls
    /\ ret' = [op |-> "reset_stats", key |-> "none", ttl |-> 0, kind |-> "none",
               data |-> "none"]
    /\ UNCHANGED <<cache, now, written, evicted, lock, pc, op, tret, notFetchers>>

\* the clock between two steps
FetcherTick ==
    /\ now < FetcherMaxNow
    /\ now' = now + 1
    /\ UNCHANGED <<cache, hits, misses, sets, ret, written, evicted, threadVars, notFetchers>>

InitFetchers ==
    /\ CacheIdle
    /\ lock = "free"
    /\ pc = [t \in Threads |-> "idle"]
    /\ op = [t \in Threads |-> NoOp]
    /\ tret = [t \in Threads |-> NoTRet]
    /\ setLog = NoCalls
    /\ HistIdle
    /\ ExtraIdle
    /\ ScoreIdle
    /\ ActIdle

NextFetchers ==
    \/ \E t \in Threads : FetcherGet(t)
    \/ \E t \in Threads : FetcherCompute(t)
    \/ \E t \in Threads : FetcherStore(t)
    \/ FetcherResetStats
    \/ CacheInvalidate
    \/ CacheClear
    \/ CacheCleanupExpired
    \/ FetcherTick

SpecFetchers == InitFetchers /\ [][NextFetchers]_vars

(***************************************************************************)
(* Action specification: _determine_action over every (score, bullish,     *)
(* bearish) of the bounded input space.                                    *)
(***************************************************************************)
InitAction ==
    /\ actIn \in ActInputs
    /\ actOut = NoAct
    /\ ScoreIdle
    /\ CacheIdle
    /\ ThreadsIdle
    /\ HistIdle
    /\ ExtraIdle

SignalGeneratorDetermineAction ==
    /\ actOut' = [actOut EXCEPT !.sg = determine_action(actIn.score, actIn.bullish, actIn.bearish)]
    /\ UNCHANGED <<actIn, notAct>>

ConvergenceStrategyDetermineAction ==
    /\ actOut' = [actOut EXCEPT
                    !.cs = ConvergenceStrategy_determine_action(actIn.score, actIn.bullish, actIn.bearish)]
    /\ UNCHANGED <<actIn, notAct>>

NextAction == SignalGeneratorDetermineAction \/ ConvergenceStrategyDetermineAction

SpecAction == InitAction /\ [][NextAction]_vars

(***************************************************************************)
(* Claims on the scorers.                                                  *)
(***************************************************************************)
\* C1: whatever the metric inputs, the convergence score a scorer returns
\* lies in [0,100].
C1_ScoreInRange ==
    scorer # "none" => signal.convergence_score \in 0..100

\* C2: when the bullish count equals the bearish count, or neither count
\* reaches the minimum aligned-signal count, the result is neither a long nor
\* a short recommendation, whatever the score.
C2_TieForcesSkip ==
    (/\ scorer # "none"
     /\ \/ signal.bullish_signals = signal.bearish_signals
        \/ /\ signal.bullish_signals < MIN_ALIGNED_SIGNALS
           /\ signal.bearish_signals < MIN_ALIGNED_SIGNALS)
    => signal.action \notin ({"LONG", "SHORT"} \cup LongRecommendations \cup ShortRecommendations)

\* C3: the action is SKIP below the minimum score; otherwise LONG when the
\* bullish count reaches the minimum and exceeds the bearish count; otherwise
\* SHORT under the mirrored condition; otherwise SKIP; every input gets
\* exactly one of the three actions.
C3_ActionRule ==
    \A who \in {"sg", "cs"} :
        actOut[who] # "none" =>
            LET enough == actIn.score >= MIN_CONVERGENCE_SCORE
                long == /\ enough
                        /\ actIn.bullish >= MIN_ALIGNED_SIGNALS
                        /\ actIn.bullish > actIn.bearish
                short == /\ enough
                         /\ actIn.bearish >= MIN_ALIGNED_SIGNALS
                         /\ actIn.bearish > actIn.bullish
            IN  /\ actOut[who] \in {"LONG", "SHORT", "SKIP"}
                /\ (actOut[who] = "LONG") <=> long
                /\ (actOut[who] = "SHORT") <=> short
                /\ (actOut[who] = "SKIP") <=> (~long /\ ~short)

\* Both implementations have answered LONG for a contested input.
C3_Witness ==
    /\ actOut.sg = "LONG"
    /\ actOut.cs = "LONG"
    /\ actIn.bearish > 0

(***************************************************************************)
(* Claims on the cache.                                                    *)
(***************************************************************************)
\* A step that is one get() call: it counts one hit or one miss.
IsGetStep == hits' + misses' = hits + misses + 1

\* The read of the get() step agrees with the write w: a hit with w's value
\* before the TTL has elapsed, a miss after it has.
ReadAgrees(w) ==
    /\ (now - w.t < ret'.ttl) => (ret'.kind = "hit" /\ ret'.data = w.v)
    /\ (now - w.t > ret'.ttl) => ret'.kind = "miss"

InLock(t) == pc[t] \in {"check", "read", "body"}

\* C5: under any interleaving of concurrent get, set, invalidate, clear and
\* cleanup calls every call takes effect atomically: the bodies exclude one
\* another, no get() fails on an entry that vanished under it, and a reader
\* gets a miss or the data stored under that key by one single set() call.
C5_CallsAtomic ==
    /\ \A t1, t2 \in Threads : (t1 # t2 /\ InLock(t1)) => ~InLock(t2)
    /\ \A t \in Threads :
        /\ tret[t].kind \in {"none", "miss", "hit", "done"}
        /\ tret[t].kind = "hit" =>
             [key |-> tret[t].key, data |-> tret[t].data] \in setLog

\* A get() is between its membership test and its read of the entry while
\* the other thread waits at the lock to remove that very entry.
C5_Witness ==
    \E t1, t2 \in Threads :
        /\ t1 # t2
        /\ pc[t1] = "read"
        /\ pc[t2] = "lock"
        /\ op[t2].name \in {"invalidate", "clear", "cleanup_expired"}
        /\ tret[t2].kind = "none"
        /\ Cardinality(setLog) > 0

(***************************************************************************)
(* Claims on the historical state stores.                                  *)
(***************************************************************************)
Occurrences(seq, x) == Cardinality({i \in 1..Len(seq) : seq[i] = x})

\* The timestamp of the latest save: what it pruned lies 24 hours before.
LastSaved == wlog[Len(wlog)].entry.timestamp

\* C6: when two writers append a snapshot for the same instrument
\* concurrently, both snapshots are present in the instrument's series once
\* both have finished: every saved entry that is within the retention of
\* the latest save is in the file as often as it was saved.
C6_BothSnapshotsPresent ==
    (\A w \in Writers : wpc[w] = "idle") =>
        \A i \in 1..Len(wlog) :
            wlog[i].entry.timestamp > LastSaved - (24 * 3600) =>
                Occurrences(oi_file[wlog[i].coin].q, wlog[i].entry)
                    >= Occurrences(wlog, wlog[i])

Sorted(q) == \A i \in 1..(Len(q) - 1) : q[i].timestamp <= q[i + 1].timestamp

\* C7: after any sequence of appends, with any caller-supplied timestamps,
\* each instrument's series is sorted by timestamp and holds no snapshot
\* older than the retention horizon (here: right after add_oi_snapshot).
C7_SortedAndPruned ==
    hret.kind = "add_oi" =>
        \A c \in Coins :
            /\ Sorted(oi_history[c].q)
            /\ \A i \in 1..Len(oi_history[c].q) :
                   oi_history[c].q[i].timestamp >= wall - oi_retention_hours * 3600

\* What the lookup that has just returned hret must have returned: a stored
\* entry within the tolerance of now - hours_ago, and not-found only when
\* no stored entry is within it.
LookupWithinTolerance ==
    hret.kind = "lookup" =>
        LET storage == hret.fn = "get_oi_at_time"
            entries == IF storage THEN oi_history[hret.coin].q ELSE oi_file[hret.coin].q
            tolerance == IF storage THEN StorageTolerance ELSE ToolsTolerance
            target == wall - hret.hours_ago * 3600
            near == {i \in 1..Len(entries) :
                        Abs(entries[i].timestamp - target) < tolerance}
        IN  /\ hret.entry.found => \E i \in near : hret.entry = Found(entries[i])
            /\ ~hret.entry.found => near = {}

\* C8: a "value at T hours ago" lookup (get_oi_at_time, _get_oi_at_time)
\* returns a stored entry only if the entry's timestamp lies within the
\* tolerance window around now - T, and returns not-found otherwise.
C8_LookupWithinTolerance == [][hret' # hret => LookupWithinTolerance']_vars

\* A snapshot written 4h10m ago is returned for a "4 hours ago" query.
C8_Witness ==
    /\ hret.kind = "lookup"
    /\ hret.fn = "get_oi_at_time"
    /\ hret.hours_ago = 4
    /\ hret.entry.found
    /\ wall - hret.entry.timestamp = 4 * 3600 + 600

\* C9: when an anchor needed for a velocity or for the acceleration is
\* missing from the history, get_funding_dynamics leaves that quantity out
\* of its result; it never reports it as 0.
C9_MissingAnchorUndefined ==
    hret.kind = "dynamics" =>
        LET d == hret.dynamics
        IN  /\ ~d.funding_4h_ago.present =>
                   ~d.velocity_4h.present /\ ~d.acceleration.present
            /\ ~d.funding_8h_ago.present =>
                   ~d.velocity_8h.present /\ ~d.acceleration.present

\* The OI divergence metric of MetricsCalculator and of OIDivergenceMetric
\* without its historical anchor: "unknown", and nothing raised.
MetricWithoutAnchorUnknown ==
    (hret.kind = "metric" /\ ~hret.anchor) =>
        ~hret.raised /\ hret.result.divergence_type = "unknown"

\* C10 as stated: when the historical anchor a metric depends on is
\* missing, the metric reports the value "unknown" and no exception is
\* raised.
C10_MissingAnchorUnknown ==
    /\ MetricWithoutAnchorUnknown
    /\ (hret.kind = "fetch" /\ ~hret.change_4h_pct.present) =>
           hret.divergence_type = "unknown"

\* C10, amended: without the anchor MetricsCalculator and
\* OIDivergenceMetric report "unknown"; fetch_open_interest_metrics reports
\* the divergence "neutral" with the 4h changes None; nothing is raised.
C10_MissingAnchorUnknownOrNeutral ==
    /\ MetricWithoutAnchorUnknown
    /\ (hret.kind = "fetch" /\ ~hret.change_4h_pct.present) =>
           hret.divergence_type = "neutral" /\ ~hret.price_change_4h_pct.present

\* fetch_open_interest_metrics has returned a result computed without the
\* 4h anchor.
C10_Witness ==
    /\ hret.kind = "fetch"
    /\ ~hret.change_4h_pct.present
    /\ hret.divergence_type = "neutral"

(***************************************************************************)
(* Claims on failures and repeated evaluation.                             *)
(***************************************************************************)
IsPresent(m, n) == IF n = "oi_divergence_type" THEN m[n] # "absent" ELSE m[n].present

\* The most the metrics present in m can add to the score of
\* ConvergenceStrategy and to that of _generate_summary.
StrategyPointsOfPresent(m) ==
    25 * B2N(m.ob_imbalance.present) + 25 * B2N(m.flow_imbalance.present)
    + 30 * B2N(m.vwap_z_score.present) + 20 * B2N(m.funding_annualized.present)
    + 20 * B2N(m.oi_divergence_type # "absent")
    + 15 * B2N(m.funding_annualized.present /\ m.basis_pct.present)

SummaryPointsOfPresent(m) ==
    25 * B2N(m.ob_imbalance.present) + 25 * B2N(m.flow_imbalance.present)
    + 15 * B2N(m.funding_annualized.present)
    + 30 * B2N(m.oi_divergence_type # "absent")
    + 35 * B2N(m.funding_annualized.present /\ m.basis_pct.present)

\* C11: if a metric computation has too little data or fails, the overall
\* evaluation still completes and yields a result, and the failed metric
\* adds no points to the score: a failed metric is no entry of the metrics
\* dictionary, and the score is at most what the present metrics can add.
C11_FailedMetricAddsNoPoints ==
    /\ scorer # "raised"
    /\ scorer \in {"calculate_all", "fetch_institutional_metrics"} =>
           \A n \in MetricNames : outcomes[n].kind # "ok" => ~IsPresent(metrics, n)
    /\ scorer = "ConvergenceStrategy" =>
           /\ signal.action \in {"LONG", "SHORT", "SKIP"}
           /\ signal.convergence_score <= StrategyPointsOfPresent(metrics)
    /\ scorer = "fetch_institutional_metrics" =>
           /\ signal.action # "none"
           /\ signal.convergence_score <= SummaryPointsOfPresent(metrics)

\* The strategy has scored a dictionary from which a metric that raised and
\* a metric without data are missing.
C11_Witness ==
    /\ scorer = "ConvergenceStrategy"
    /\ \E n \in MetricNames : outcomes[n].kind = "raised" /\ ~IsPresent(metrics, n)
    /\ \E n \in MetricNames : outcomes[n].kind = "invalid" /\ ~IsPresent(metrics, n)
    /\ \E n \in MetricNames : IsPresent(metrics, n)
    /\ signal.convergence_score > 0

SameCall(a, b) == a.fn = b.fn /\ a.input = b.input

\* C12: calling evaluate twice on identical snapshots yields two
\* bit-identical results: every field of the second result equals the
\* first, and the first call leaves no state behind that changes the second.
C12_Idempotent ==
    \A i \in DOMAIN evals : \A j \in DOMAIN evals :
        SameCall(evals[i], evals[j]) => evals[i] = evals[j]

\* The end-to-end scenario: bias BULLISH on daily, 4h and 1h, dealing
\* range [66000, 68000], price 66200, and the scenario's metrics.
IsScenario ==
    /\ call.fn = "setup"
    /\ \A tf \in Timeframes : call.structures[tf] = "BULLISH"
    /\ call.dealing_range = DealingRange("discount")
    /\ call.current_price = 66200
    /\ metrics = ScenarioMetrics

\* C13: in the end-to-end scenario the evaluation yields action LONG,
\* score >= 70 and entry 66200, and the +10.95% funding counts as aligned
\* with the long side, not as a contrarian bearish vote.
C13_ScenarioIsLong ==
    IsScenario =>
        /\ result.fn = "validate_bullish_setup" =>
               result.valid /\ result.direction = "LONG" /\ result.entry_price = 66200
        /\ scorer = "SignalGenerator" =>
               /\ signal.action = "LONG"
               /\ signal.convergence_score >= 70
               /\ calculate_price_levels(signal.action, call.current_price).entry = 6620000
               /\ signal.bearish_signals = 0
        /\ scorer = "generate_summary" =>
               /\ signal.action \in LongRecommendations
               /\ signal.convergence_score >= 70
               /\ signal.bearish_signals = 0

\* Every snapshot of the deque q that is inside the retention horizon at
\* time t is still a snapshot of the deque q2.
KeptInsideHorizon(q, q2, t) ==
    \A i \in DOMAIN q :
        q[i].timestamp > t - oi_retention_hours * 3600 =>
            \E j \in DOMAIN q2 : q2[j] = q[i]

\* C14: retention of the historical snapshots is time-based, not
\* count-based: a snapshot is dropped only because it is older than the
\* retention horizon, so no step of the store drops a snapshot that is
\* still inside the horizon.
C14_TimeBasedRetention ==
    [][\A c \in Coins :
           oi_history[c].exists =>
               KeptInsideHorizon(oi_history[c].q, oi_history'[c].q, wall')]_vars

\* CACHE_TTL of the module that writes and reads the keys of a data class.
ClassTTL(key) == IF key = "oi:BTC" THEN OpenInterestTTL ELSE OrderBookTTL

\* C15: the TTL that decides when a cache entry expires is fixed for the
\* entry's data class at the time the entry is written, a later reader can
\* neither lengthen nor shorten it: a read of an entry that was written and
\* not removed since hits before the TTL of its class has elapsed and misses
\* after it has, whatever the reader passes; and the order-book TTL is much
\* smaller than the open-interest TTL.
C15_TTLFixedAtWrite ==
    [][/\ OrderBookTTL * 10 <= OpenInterestTTL
       /\ (IsGetStep /\ written[ret'.key].present /\ ~evicted[ret'.key]) =>
              /\ now - written[ret'.key].t < ClassTTL(ret'.key) => ret'.kind = "hit"
              /\ now - written[ret'.key].t > ClassTTL(ret'.key) => ret'.kind = "miss"]_vars

\* C16: a cache read that finds the entry for its key expired evicts that
\* entry and returns a miss, the key is absent afterwards until the next
\* set on it, and a read evicts no entry of any other key.
C16_ExpiredReadEvictsOnlyItsKey ==
    [][/\ IsGetStep =>
              /\ (cache[ret'.key].present /\ now - cache[ret'.key].timestamp > ret'.ttl) =>
                     (~cache'[ret'.key].present /\ ret'.kind = "miss")
              /\ \A k \in Keys \ {ret'.key} : cache'[k] = cache[k]
       /\ \A k \in Keys :
              (~cache[k].present /\ cache'[k].present) => (ret'.op = "set" /\ ret'.key = k)]_vars

\* A get() has just missed on an entry it found expired and removed, while
\* the entry of another key, as old under the same TTL, is still there.
C16_Witness ==
    /\ ret.op = "get"
    /\ ret.kind = "miss"
    /\ written[ret.key].present
    /\ now - written[ret.key].t > ret.ttl
    /\ evicted[ret.key]
    /\ ~cache[ret.key].present
    /\ \E k \in Keys \ {ret.key} : cache[k].present /\ now - cache[k].timestamp > ret.ttl

\* C17: there is no shared mutable state across instruments: appending to
\* or pruning one instrument's series never changes or loses snapshots of
\* another instrument's series, also when the evaluations of different
\* instruments run in parallel: a caller's save leaves the series of every
\* other coin as it was.
C17_InstrumentsIndependent ==
    [][\A w \in Writers :
           (wpc[w] = "loaded" /\ wpc'[w] = "idle") =>
               \A c \in Instruments \ {wlocal[w].coin} : oi_file'[c] = oi_file[c]]_vars

\* C18: the multi-timeframe check reports 'aligned' only if every required
\* timeframe has the same non-neutral bias; if a required timeframe is
\* NEUTRAL, missing, or differs from another, the result is not aligned.
C18_AlignedOnlyIfAllAgree ==
    result.fn = "check_htf_alignment" =>
        LET required == Range(call.required_timeframes)
        IN  /\ result.aligned =>
                   /\ result.bias \in {"BULLISH", "BEARISH"}
                   /\ \A tf \in required : call.structures[tf] = result.bias
            /\ (\/ \E tf \in required : call.structures[tf] \in {"NEUTRAL", "missing"}
                \/ \E tf1, tf2 \in required : call.structures[tf1] # call.structures[tf2])
                   => (~result.aligned /\ result.bias = "none")

\* The check has reported the three required timeframes aligned.
C18_Witness ==
    /\ result.fn = "check_htf_alignment"
    /\ result.aligned
    /\ result.bias = "BEARISH"
    /\ Len(call.required_timeframes) = 3
    /\ \A tf \in Timeframes : call.structures[tf] = "BEARISH"

\* C19: a call that names an unknown interval or timeframe key is surfaced
\* synchronously as a caller error for that single call; it is not absorbed
\* into a normal result.
C19_UnknownKeyIsCallerError ==
    /\ (result.fn = "get_interval_constraint"
          /\ Lower(call.interval) \notin DOMAIN INTERVAL_CONSTRAINTS) => result.raised
    /\ (result.fn = "analyze_timeframe_convergence"
          /\ \E tf \in call.timeframes : tf \notin timeframe_map) => result.raised

\* (accountBalance * riskPct / 100) / |entry - stop| * leverage of the call
SizeOfCall ==
    [n |-> call.account_balance * call.risk_pct * call.leverage,
     d |-> 100 * Abs(call.entry_price - call.stop_loss)]

ZeroRiskIsError ==
    call.entry_price = call.stop_loss =>
        /\ result.error = "Invalid stop loss - same as entry price"
        /\ ~result.divided
        /\ result.position_size = 0

\* C20 as stated: position sizing with a zero risk-per-unit reports an
\* explicit error and never performs the division; otherwise size =
\* (accountBalance * riskPct / 100) / |entry - stop| * leverage.
C20_SizeIsQuotient ==
    result.fn = "calculate_position_size" =>
        /\ ZeroRiskIsError
        /\ call.entry_price # call.stop_loss =>
               /\ result.error = "none"
               /\ result.position_size * SizeOfCall.d = SizeOfCall.n * 10000

\* C20 as amended: the same, the size being the quotient rounded to four
\* decimal places.
C20_SizeIsRoundedQuotient ==
    result.fn = "calculate_position_size" =>
        /\ ZeroRiskIsError
        /\ call.entry_price # call.stop_loss =>
               /\ result.error = "none"
               /\ result.position_size = Round4(SizeOfCall)

\* The sizing has answered an entry equal to the stop with the error.
C20_Witness ==
    /\ result.fn = "calculate_position_size"
    /\ call.entry_price = call.stop_loss
    /\ call.leverage = 3
    /\ result.error # "none"
    /\ ~result.divided

(***************************************************************************)
(* Claims on confidence, price levels and structure.                       *)
(***************************************************************************)
TierRank(confidence) == IF confidence = "HIGH" THEN 2 ELSE IF confidence = "MEDIUM" THEN 1 ELSE 0

\* What the scorer that answered returns for the pair (score, aligned).
ConfidenceOf(score, aligned) ==
    IF result.fn = "SignalGenerator._determine_confidence"
    THEN determine_confidence(score, aligned)
    ELSE ConvergenceStrategy_determine_confidence(score, aligned)

\* C21: the confidence tier depends only on the pair (score,
\* max(bullishCount, bearishCount)): HIGH when both reach the high
\* thresholds (85 and 4), MEDIUM when both reach the medium thresholds (70
\* and 3) but not both high ones, LOW otherwise; raising either input never
\* lowers the tier.
C21_ConfidenceTiers ==
    result.fn \in {"SignalGenerator._determine_confidence",
                   "ConvergenceStrategy._determine_confidence"} =>
        LET aligned == Max2(call.bullish, call.bearish)
            high == call.score >= 85 /\ aligned >= 4
            medium == call.score >= 70 /\ aligned >= 3
        IN  /\ result.confidence =
                   (IF high THEN "HIGH" ELSE IF medium THEN "MEDIUM" ELSE "LOW")
            /\ result.confidence = ConfidenceOf(call.score, aligned)
            /\ \A score \in 0..call.score : \A count \in 0..aligned :
                   TierRank(ConfidenceOf(score, count)) <= TierRank(result.confidence)

\* A scorer has answered HIGH for a score of 85 with four bearish signals
\* against one bullish.
C21_Witness ==
    /\ result.fn = "ConvergenceStrategy._determine_confidence"
    /\ result.confidence = "HIGH"
    /\ call.score = 85
    /\ call.bearish = 4
    /\ call.bullish = 1

LevelsReturned ==
    /\ call.fn = "levels"
    /\ result # NoCall
    /\ result.fn \in {"SignalGenerator._calculate_price_levels",
                      "ConvergenceStrategy._calculate_levels"}

\* the VWAP the target is computed from: a VWAP of 0 stands for a missing one
EffectiveVwap == IF call.vwap = 0 THEN call.current_price ELSE call.vwap

\* C22 as stated: for a non-SKIP signal the entry equals the current price,
\* the LONG stop is entry * 0.98 and the LONG target is
\* max(VWAP * 1.01, entry * 1.015); SHORT is mirrored (1.02, min, 0.99, 0.985)
C22_LevelsExact ==
    (LevelsReturned /\ call.action # "SKIP") =>
        /\ result.levels.entry * 100 = call.current_price
        /\ call.action = "LONG" =>
               /\ result.levels.stop * 10000 = call.current_price * 98
               /\ result.levels.target * 100000 =
                      Max2(call.vwap * 1010, call.current_price * 1015)
        /\ call.action = "SHORT" =>
               /\ result.levels.stop * 10000 = call.current_price * 102
               /\ result.levels.target * 100000 =
                      Min2(call.vwap * 990, call.current_price * 985)

\* C22 amended: for a non-SKIP signal at a positive price each level is the
\* stated quantity rounded to cents, with the current price standing in for a
\* VWAP of 0; at a price of 0 all three levels are 0
C22_LevelsRounded ==
    (LevelsReturned /\ call.action # "SKIP") =>
        IF call.current_price = 0
        THEN result.levels = [entry |-> 0, stop |-> 0, target |-> 0]
        ELSE /\ result.levels.entry = RoundCents(call.current_price, 100)
             /\ call.action = "LONG" =>
                    /\ result.levels.stop = RoundCents(call.current_price * 98, 10000)
                    /\ result.levels.target =
                           RoundCents(Max2(EffectiveVwap * 1010,
                                           call.current_price * 1015), 100000)
             /\ call.action = "SHORT" =>
                    /\ result.levels.stop = RoundCents(call.current_price * 102, 10000)
                    /\ result.levels.target =
                           RoundCents(Min2(EffectiveVwap * 990,
                                           call.current_price * 985), 100000)

\* a LONG at 100.00 with the VWAP at 102.00: stop 98.00, target 103.02
C22_Witness ==
    /\ LevelsReturned
    /\ call.action = "LONG"
    /\ call.current_price = 1000000
    /\ call.vwap = 1020000
    /\ result.levels = [entry |-> 10000, stop |-> 9800, target |-> 10302]

\* C30: at every positive price a LONG has stop < entry < target and a SHORT
\* has target < entry < stop in the levels returned
C30_LevelsStrictlyOrdered ==
    (LevelsReturned /\ call.current_price > 0) =>
        /\ call.action = "LONG" =>
               /\ result.levels.stop < result.levels.entry
               /\ result.levels.entry < result.levels.target
        /\ call.action = "SHORT" =>
               /\ result.levels.target < result.levels.entry
               /\ result.levels.entry < result.levels.stop

SwingsReturned ==
    /\ call.fn = "swings"
    /\ result # NoCall
    /\ result.fn \in {"detect_swing_highs", "detect_swing_lows",
                      "compute_three_candle_swings_raw"}

ReportsHighs == result.fn \in {"detect_swing_highs", "compute_three_candle_swings_raw"}

ReportsLows == result.fn \in {"detect_swing_lows", "compute_three_candle_swings_raw"}

\* Python index i of the call's candles is a local maximum of the highs
IsLocalHigh(i) ==
    /\ 0 < i /\ i < Len(call.candles) - 1
    /\ Gt(to_num(call.candles[i + 1].h), to_num(call.candles[i].h))
    /\ Gt(to_num(call.candles[i + 1].h), to_num(call.candles[i + 2].h))

\* Python index i of the call's candles is a local minimum of the lows
IsLocalLow(i) ==
    /\ 0 < i /\ i < Len(call.candles) - 1
    /\ Gt(to_num(call.candles[i].l), to_num(call.candles[i + 1].l))
    /\ Gt(to_num(call.candles[i + 2].l), to_num(call.candles[i + 1].l))

\* the number a reported price stands for, raw or converted
PriceOf(p) == IF "kind" \in DOMAIN p THEN to_num(p) ELSE p

ReportedAt(swings, i) == \E k \in DOMAIN swings : swings[k].index = i

\* the list reports exactly the indices that satisfy the rule, in order, each
\* with the price of its candle
HighsFollowRule ==
    /\ \A i \in 0..MaxCandles : ReportedAt(result.swing_highs, i) <=> IsLocalHigh(i)
    /\ \A k \in DOMAIN result.swing_highs :
           /\ PriceOf(result.swing_highs[k].price) =
                  to_num(call.candles[result.swing_highs[k].index + 1].h)
           /\ k > 1 => result.swing_highs[k - 1].index < result.swing_highs[k].index

LowsFollowRule ==
    /\ \A i \in 0..MaxCandles : ReportedAt(result.swing_lows, i) <=> IsLocalLow(i)
    /\ \A k \in DOMAIN result.swing_lows :
           /\ PriceOf(result.swing_lows[k].price) =
                  to_num(call.candles[result.swing_lows[k].index + 1].l)
           /\ k > 1 => result.swing_lows[k - 1].index < result.swing_lows[k].index

\* C23 as stated: index i is reported as a swing high exactly when
\* high[i] > high[i-1] and high[i] > high[i+1], mirrored for lows
C23_SwingIffLocalExtremum ==
    SwingsReturned =>
        /\ ReportsHighs => HighsFollowRule
        /\ ReportsLows => LowsFollowRule

\* the call is long enough for the function that answered it
LongEnough ==
    \/ result.fn = "compute_three_candle_swings_raw"
    \/ Len(call.candles) >= call.min_candles

\* C23 amended: the rule decides the swings of a series of at least
\* min_candles candles; detect_swing_highs and detect_swing_lows report no
\* swing at all for a shorter series
C23_SwingIffLocalExtremumWhenLongEnough ==
    SwingsReturned =>
        IF LongEnough
        THEN /\ ReportsHighs => HighsFollowRule
             /\ ReportsLows => LowsFollowRule
        ELSE /\ ReportsHighs => result.swing_highs = <<>>
             /\ ReportsLows => result.swing_lows = <<>>

\* highs [10, 12, 9, 11, 8]: a swing high at index 1 with price 12
C23_Witness ==
    /\ SwingsReturned
    /\ result.fn = "detect_swing_highs"
    /\ Len(call.candles) = 5
    /\ [k \in 1..5 |-> to_num(call.candles[k].h)] =
           <<Val(10), Val(12), Val(9), Val(11), Val(8)>>
    /\ result.swing_highs[1] = [index |-> 1, price |-> Val(12)]

StructureReturned ==
    /\ call.fn = "structure"
    /\ result # NoCall
    /\ result.fn = "determine_structure_bias"

\* the transitions of the analysed swings that go up, and those that go down
UpTransitions ==
    HigherCount(RecentSwings(call.swing_highs)) + HigherCount(RecentSwings(call.swing_lows))

DownTransitions ==
    LowerCount(RecentSwings(call.swing_highs)) + LowerCount(RecentSwings(call.swing_lows))

\* the fraction of the transitions that agree with the majority is below the
\* configured minimum
MajorityBelowMinimum ==
    Max2(UpTransitions, DownTransitions) * 100 <
        call.min_structure_confidence * (UpTransitions + DownTransitions)

TooFewSwings == Len(call.swing_highs) < 2 \/ Len(call.swing_lows) < 2

\* C24: the bias is NEUTRAL with fewer than 2 swing highs or fewer than 2 swing
\* lows, NEUTRAL/RANGING when the fraction of transitions agreeing with the
\* majority is below the configured minimum, and BULLISH or BEARISH only
\* otherwise
C24_NeutralUnlessClearStructure ==
    StructureReturned =>
        /\ result.structure.bias \in {"BULLISH", "BEARISH", "NEUTRAL"}
        /\ TooFewSwings => result.structure.bias = "NEUTRAL"
        /\ (~TooFewSwings /\ MajorityBelowMinimum) =>
               /\ result.structure.bias = "NEUTRAL"
               /\ result.structure.pattern = "RANGING"
        /\ result.structure.bias \in {"BULLISH", "BEARISH"} =>
               ~TooFewSwings /\ ~MajorityBelowMinimum

\* two of three transitions go up, 0.67 of them, under a minimum of 0.75
C24_Witness ==
    /\ StructureReturned
    /\ call.swing_highs = <<1, 2, 1>>
    /\ call.swing_lows = <<1, 2>>
    /\ call.min_structure_confidence = 75
    /\ result.structure = [bias |-> "NEUTRAL", pattern |-> "RANGING", confidence |-> 67]

VwapReturned ==
    /\ call.fn = "vwap"
    /\ result # NoCall
    /\ result.fn \in {"calculate_vwap", "MetricsCalculator.calculate_vwap_deviation",
                      "VWAPDeviationMetric.calculate"}

\* the computation ran over a full window whose volumes add up to zero
ZeroVolumeWindow ==
    /\ result.window # <<>>
    /\ result.fn # "calculate_vwap" => Len(call.candles) >= VwapLookback
    /\ SumVolume(result.window) = 0

\* the VWAP reported, in hundredths, is the simple average of the window's
\* typical prices rounded to hundredths
ReportsTypicalAverage ==
    IF result.fn = "calculate_vwap"
    THEN result.vwap.n * 3 * Len(result.window) = SumTypical(result.window) * result.vwap.d
    ELSE result.deviation.vwap =
             Round2([n |-> SumTypical(result.window), d |-> 3 * Len(result.window)])

\* C26: over a window whose total volume is zero the VWAP returned is the
\* simple average of the candles' typical prices (H + L + C) / 3
C26_ZeroVolumeGivesTypicalAverage ==
    (VwapReturned /\ ZeroVolumeWindow) => ReportsTypicalAverage

DivergenceReturned ==
    /\ call.fn = "divergence"
    /\ result # NoCall
    /\ result.fn \in {"determine_oi_divergence",
                      "MetricsCalculator.calculate_oi_divergence"}

\* the change from the historical value in hundredths of a percent, 0 without
\* a historical value
ChangeHundredths(current, historical) ==
    IF historical = 0 THEN 0 ELSE ((current - historical) * 10000) \div historical

DivergenceClasses ==
    {"strong_bullish", "weak_bullish", "strong_bearish", "weak_bearish", "neutral"}

\* the class the rule gives with a threshold of 1.5%, in hundredths
ClassAtThreshold(price, oi) ==
    IF price > 150 /\ oi > 150 THEN "strong_bullish"
    ELSE IF price > 150 /\ oi < -150 THEN "weak_bullish"
    ELSE IF price < -150 /\ oi > 150 THEN "strong_bearish"
    ELSE IF price < -150 /\ oi < -150 THEN "weak_bearish"
    ELSE "neutral"

\* C25: with threshold 1.5% the class is strong_bullish for price up and OI
\* up beyond the threshold, weak_bullish for price up and OI down,
\* strong_bearish for price down and OI up, weak_bearish for price down and
\* OI down, and neutral for every other input
C25_DivergenceClasses ==
    DivergenceReturned =>
        /\ result.divergence_type \in DivergenceClasses
        /\ result.divergence_type =
               ClassAtThreshold(
                   ChangeHundredths(call.current_price, call.historical_price),
                   ChangeHundredths(call.current_oi, call.historical_oi))

\* get_funding_dynamics returned a result built on the 4h and the 8h anchor
DynamicsWithAnchors ==
    /\ hret.kind = "dynamics"
    /\ ~hret.dynamics.none
    /\ hret.dynamics.funding_4h_ago.present
    /\ hret.dynamics.funding_8h_ago.present

\* the anchors of the result are the lookups 4 and 8 hours before now and the
\* current value is the last snapshot appended
AnchorsAreLookups ==
    LET d == hret.dynamics
        q == funding_history[hret.coin].q
    IN  /\ d.current = Val(q[Len(q)].funding_rate)
        /\ d.funding_4h_ago = get_funding_at_time(funding_history, hret.coin, 4, wall)
        /\ d.funding_8h_ago = get_funding_at_time(funding_history, hret.coin, 8, wall)

VelocitiesAreDifferences ==
    LET d == hret.dynamics
    IN  /\ d.velocity_4h = Val(d.current.v - d.funding_4h_ago.v)
        /\ d.velocity_8h = Val(d.current.v - d.funding_8h_ago.v)

\* C27 as stated: the velocity over N hours is current - value(N hours ago)
\* and the acceleration is the velocity over the short window minus the
\* velocity over the long window
C27_AccelerationIsVelocityDifference ==
    DynamicsWithAnchors =>
        /\ AnchorsAreLookups
        /\ VelocitiesAreDifferences
        /\ hret.dynamics.acceleration =
               Val(hret.dynamics.velocity_4h.v - hret.dynamics.velocity_8h.v)

\* C27 amended: the velocities are as stated and the acceleration is the
\* velocity over the last 4 hours minus the velocity over the 4 hours before
\* them, value(4h ago) - value(8h ago)
C27_AccelerationIsSecondDifference ==
    DynamicsWithAnchors =>
        /\ AnchorsAreLookups
        /\ VelocitiesAreDifferences
        /\ hret.dynamics.acceleration =
               Val(hret.dynamics.velocity_4h.v
                   - (hret.dynamics.funding_4h_ago.v - hret.dynamics.funding_8h_ago.v))

\* funding 10, 10 and 12 at now - 8h, now - 4h and now: both velocities are 2
\* and the acceleration is 2
C27_Witness ==
    /\ DynamicsWithAnchors
    /\ hret.dynamics.current = Val(12)
    /\ hret.dynamics.funding_4h_ago = Val(10)
    /\ hret.dynamics.funding_8h_ago = Val(10)
    /\ hret.dynamics.velocity_8h = Val(2)
    /\ hret.dynamics.acceleration = Val(2)

\* caller t has missed on its key and has not yet written its own entry
Missed(t) == pc[t] \in {"compute", "store"}

\* C28: the check-then-write sequence is mutually exclusive per key: while
\* one caller is between its read-miss and its set on a key, no other caller
\* is between its own read-miss and set on the same key
C28_CheckThenWriteExclusive ==
    \A t, u \in Threads :
        (t # u /\ Missed(t) /\ Missed(u)) => op[t].key # op[u].key

\* C29: since the last statistics reset, hits + misses is the number of get
\* calls made and sets is the number of set calls made, with concurrent
\* callers and whatever invalidate, clear and cleanup_expired calls come
\* between
C29_CountersCountCalls ==
    /\ hits + misses = setLog.gets
    /\ sets = setLog.sets

\* a clear after a hit, a miss and a set leaves the three counters at 1
C29_Witness ==
    /\ ret.op = "clear"
    /\ hits = 1
    /\ misses = 1
    /\ sets = 1
    /\ setLog = [gets |-> 2, sets |-> 1]

====
